---- MODULE Spec2Model ----
(***************************************************************************)
(* rabbithole: the update / audit-fix orchestrator (updateCommand) and the *)
(* services it drives (getOutdated, updateMultiplePackages, runAudit,      *)
(* runAuditFix).                                                           *)
(*                                                                         *)
(* Text is modelled as a sequence of tokens; the markers the code searches *)
(* for with String.includes are token sequences, and includes is the       *)
(* contiguous-subsequence test.  Package names are 1..NumPkgs, ordered as  *)
(* localeCompare orders the names.                                         *)
(***************************************************************************)
EXTENDS Integers, Sequences, FiniteSets, TLC

\* ---------------------------------------------------------------- bounds
NumPkgs == 2
MaxNames == 2
MaxLines == 2       \* lines of one captured stderr text
MaxFindings == 3    \* findings in one audit report
MaxVia == 2         \* entries in the via-list of one finding
MaxAge == 760       \* days since the last publication
MaxFetch == 11      \* names handed to one getMultiplePackageMetadata call
MaxItems == 2       \* "<word> <digits>" items in one `npm audit fix` output

Pkgs == 1..NumPkgs

\* a package name that Object.prototype also defines, such as "constructor"
ProtoName == 0
Names == Pkgs \cup {ProtoName}

\* ------------------------------------------------------------------ text
None == <<"<undefined>">>

RECURSIVE SeqsUpTo(_, _)
SeqsUpTo(S, n) ==
  IF n = 0 THEN {<<>>}
  ELSE LET shorter == SeqsUpTo(S, n - 1)
       IN  shorter \cup {Append(s, x) : s \in {t \in shorter : Len(t) = n - 1}, x \in S}

\* String.prototype.includes
Includes(text, marker) ==
  \E i \in 0..(Len(text) - Len(marker)) :
     \A j \in 1..Len(marker) : text[i + j] = marker[j]

\* ------------------------------------------------- services/updater.ts
ERESOLVE == <<"ERESOLVE">>
PeerDepReason == <<"Peer dependency conflict", " (use ", "--force", " to bypass)">>
NotFoundReason == <<"Package not found in registry">>
PermissionReason == <<"Permission denied">>
NetworkReason == <<"Network error">>
UnknownReason == <<"Unknown error">>
NpmPrefixes == {"npm ERR! ", "npm error "}

\* stderr is a sequence of lines, a line a sequence of tokens
TextIncludes(lines, marker) == \E k \in 1..Len(lines) : Includes(lines[k], marker)

HasNpmPrefix(line) == \E k \in 1..Len(line) : line[k] \in NpmPrefixes

\* whitespace is the token " "
RECURSIVE TrimStart(_)
TrimStart(line) ==
  IF line # <<>> /\ Head(line) = " " THEN TrimStart(Tail(line)) ELSE line

RECURSIVE TrimEnd(_)
TrimEnd(line) ==
  IF line # <<>> /\ line[Len(line)] = " " THEN TrimEnd(SubSeq(line, 1, Len(line) - 1))
  ELSE line

\* line.replace(/npm (ERR!|error)\s*/, "").trim(): drops the first prefix
\* only, with the whitespace that follows it
StripPrefix(line) ==
  LET k == CHOOSE i \in 1..Len(line) :
             line[i] \in NpmPrefixes /\ \A j \in 1..(i - 1) : line[j] \notin NpmPrefixes
      Trim(text) == TrimEnd(TrimStart(text))
  IN  Trim(SubSeq(line, 1, k - 1) \o TrimStart(SubSeq(line, k + 1, Len(line))))

extractErrorReason_NotFoundFirst(stderr) ==
  IF TextIncludes(stderr, <<"404">>) \/ TextIncludes(stderr, <<"Not Found">>)
  THEN NotFoundReason
  ELSE IF TextIncludes(stderr, ERESOLVE) THEN PeerDepReason
  ELSE IF TextIncludes(stderr, <<"EACCES">>) THEN PermissionReason
  ELSE IF TextIncludes(stderr, <<"ETIMEDOUT">>) \/ TextIncludes(stderr, <<"ENOTFOUND">>)
       THEN NetworkReason
  ELSE IF \E k \in 1..Len(stderr) : HasNpmPrefix(stderr[k])
       THEN LET k == CHOOSE i \in 1..Len(stderr) :
                       HasNpmPrefix(stderr[i]) /\ \A j \in 1..(i - 1) : ~HasNpmPrefix(stderr[j])
            IN  StripPrefix(stderr[k])
  ELSE UnknownReason

extractErrorReason(stderr) ==
  IF TextIncludes(stderr, ERESOLVE) THEN PeerDepReason
  ELSE IF TextIncludes(stderr, <<"404">>) \/ TextIncludes(stderr, <<"Not Found">>)
       THEN NotFoundReason
  ELSE IF TextIncludes(stderr, <<"EACCES">>) THEN PermissionReason
  ELSE IF TextIncludes(stderr, <<"ETIMEDOUT">>) \/ TextIncludes(stderr, <<"ENOTFOUND">>)
       THEN NetworkReason
  ELSE IF \E k \in 1..Len(stderr) : HasNpmPrefix(stderr[k])
       THEN LET k == CHOOSE i \in 1..Len(stderr) :
                       HasNpmPrefix(stderr[i]) /\ \A j \in 1..(i - 1) : ~HasNpmPrefix(stderr[j])
            IN  StripPrefix(stderr[k])
  ELSE UnknownReason

\* The outcomes of one `npm install <name>@latest ...`: exit 0, or a thrown
\* error carrying stderr (lines) and/or a message (first line kept).
InstallErr(stderr, message) == [ok |-> FALSE, stderr |-> stderr, message |-> message]

InstallOutcomes ==
  { [ok |-> TRUE, stderr |-> <<>>, message |-> None],
    InstallErr(<<<<"npm ERR! ", "code ", "ERESOLVE">>>>, None),
    InstallErr(<<<<"npm ERR! ", "404", " ", "Not Found">>>>, None),
    InstallErr(<<<<"npm ERR! ", "Peer dependency conflict", " detected">>>>, None),
    InstallErr(<<>>, <<"Command failed: npm install">>),
    InstallErr(<<<<"boom">>>>, None) }

\* package.json: whether it can be read and parsed, and its two dependency
\* sections. A section is present or not; `of` gives the version string
\* declared for a name, Undefined for a name that is not a key.
Undefined == "<undefined>"
Unknown == "unknown"
Declared == "1.0.0"

Section(present, of) == [present |-> present, of |-> of]
NoSection == Section(FALSE, [n \in Names |-> Undefined])

\* Object.keys(section ?? {})
OwnKeys(section) == {n \in Names : section.present /\ section.of[n] # Undefined}

\* section?.[name]: own keys first, then what the prototype chain gives
Member(section, name) ==
  LET ObjectMember == "<function Object>"     \* what ({}).constructor evaluates to
  IN  IF ~section.present THEN Undefined
      ELSE IF section.of[name] # Undefined THEN section.of[name]
      ELSE IF name = ProtoName THEN ObjectMember
      ELSE Undefined

\* pkg.dependencies?.[name] ?? pkg.devDependencies?.[name] ?? "unknown"
getCurrentVersion(manifest_, name) ==
  IF Member(manifest_.dependencies, name) # Undefined
  THEN Member(manifest_.dependencies, name)
  ELSE IF Member(manifest_.devDependencies, name) # Undefined
  THEN Member(manifest_.devDependencies, name)
  ELSE Unknown

\* name in (pkg.devDependencies ?? {}): true as well for what the prototype
\* chain gives
isDevDep(manifest_, name) ==
  LET HasMember(section) == name \in OwnKeys(section) \/ name = ProtoName
  IN  HasMember(manifest_.devDependencies)

\* the install command line, flag by flag
InstallCmd(manifest_, name, opts) ==
  [ name  |-> name,
    save  |-> IF isDevDep(manifest_, name) THEN "--save-dev" ELSE "--save",
    exact |-> opts.exact,
    legacyPeerDeps |-> opts.force ]

\* what a successful `npm install <name>@latest` leaves in package.json: the
\* latest version, pinned or as a caret range, under the section the save
\* flag names, and the name in no other section
Installed(manifest_, cmd) ==
  LET Latest(exact) == IF exact THEN "2.0.0" ELSE "^2.0.0"
      with(section)    == Section(TRUE, [section.of EXCEPT ![cmd.name] = Latest(cmd.exact)])
      without(section) == Section(section.present, [section.of EXCEPT ![cmd.name] = Undefined])
  IN  IF cmd.save = "--save-dev"
      THEN [manifest_ EXCEPT !.devDependencies = with(@), !.dependencies = without(@)]
      ELSE [manifest_ EXCEPT !.dependencies = with(@), !.devDependencies = without(@)]

\* execErr.stderr ? extractErrorReason(execErr.stderr)
\*                : (execErr.message?.split("\n")[0] ?? "Unknown error")
failureReason(exec) ==
  IF exec.stderr # <<>> THEN extractErrorReason(exec.stderr)
  ELSE IF exec.message # None THEN exec.message
  ELSE UnknownReason

\* updatePackage once the first manifest read has succeeded
updatePackage(manifest_, name, opts, exec) ==
  LET previousVersion == getCurrentVersion(manifest_, name)
      cmd == InstallCmd(manifest_, name, opts)
  IN  IF exec.ok
      THEN [name |-> name, previousVersion |-> previousVersion,
            newVersion |-> getCurrentVersion(Installed(manifest_, cmd), name),
            success |-> TRUE, error |-> None]
      ELSE [name |-> name, previousVersion |-> previousVersion,
            newVersion |-> previousVersion,
            success |-> FALSE, error |-> failureReason(exec)]

\* --------------------------------------------------- services/audit.ts
severityLevels == <<"critical", "high", "moderate", "low", "info">>

severityOrder(sev) == CHOOSE k \in 1..Len(severityLevels) : severityLevels[k] = sev

emptySummary == [l \in {severityLevels[k] : k \in 1..Len(severityLevels)} |-> 0]

EmptyAudit == [vulnerabilities |-> <<>>, summary |-> emptySummary, total |-> 0]

\* severityLevels.includes(v.severity)
isRecognized_Never(sev) == FALSE

isRecognized(sev) == \E k \in 1..Len(severityLevels) : severityLevels[k] = sev

\* (a, b) => severityOrder[a.severity] - severityOrder[b.severity], as sort
\* reads it: a difference with an unlisted severity is NaN, taken as 0
compareSeverity(a, b) ==
  IF isRecognized(a.severity) /\ isRecognized(b.severity)
  THEN severityOrder(a.severity) - severityOrder(b.severity)
  ELSE 0

\* Array.prototype.sort with a consistent comparator: stable
RECURSIVE InsertBySeverity(_, _)
InsertBySeverity(sorted, v) ==
  IF sorted = <<>> THEN <<v>>
  ELSE IF compareSeverity(v, Head(sorted)) < 0
       THEN <<v>> \o sorted
       ELSE <<Head(sorted)>> \o InsertBySeverity(Tail(sorted), v)

RECURSIVE SortBySeverity(_)
SortBySeverity(vs) ==
  IF vs = <<>> THEN <<>>
  ELSE InsertBySeverity(SortBySeverity(SubSeq(vs, 1, Len(vs) - 1)), vs[Len(vs)])

\* One run of `npm audit --json`: exit status, and what was captured on
\* stdout: nothing ("none": the error object carries no stdout), the empty
\* string ("empty"), text that is not JSON ("garbage"), the JSON value null
\* ("null"), JSON without a vulnerabilities field ("nofield"), a report with
\* an entry that has no `via` array ("novia"), or a report whose findings
\* are listed in the tool's key order ("report").
\* `order` is the engine's part: the order in which its sort leaves the
\* findings when the comparator is not consistent on them.
AuditOutIn(exit, stdout, findings, order) ==
  [exit |-> exit, stdout |-> stdout, findings |-> findings, order |-> order]

AuditOut(exit, stdout, findings) ==
  AuditOutIn(exit, stdout, findings, [k \in 1..Len(findings) |-> k])

\* the entries of a via-list: a dependency name, or an advisory object (with
\* or without a title key, with or without a url key)
ViaString == [kind |-> "string", title |-> Undefined, url |-> Undefined]
ViaObject(title, url) == [kind |-> "object", title |-> title, url |-> url]

FindingVia(name, sev, fix, via) ==
  [name |-> name, severity |-> sev, fixAvailable |-> fix, via |-> via]

Finding(name, sev, fix) ==
  FindingVia(name, sev, fix, <<ViaObject("Advisory", "https://advisory")>>)

\* v.via.find(item => typeof item === "object" && "title" in item): the
\* position of the entry found, 0 for undefined
directVia_FirstObject(via) ==
  IF \E e \in 1..Len(via) : via[e].kind = "object"
  THEN CHOOSE e \in 1..Len(via) :
         via[e].kind = "object" /\ \A d \in 1..(e - 1) : via[d].kind # "object"
  ELSE 0

directVia(via) ==
  IF \E e \in 1..Len(via) : via[e].kind = "object" /\ via[e].title # Undefined
  THEN CHOOSE e \in 1..Len(via) :
         /\ via[e].kind = "object" /\ via[e].title # Undefined
         /\ \A d \in 1..(e - 1) : ~(via[d].kind = "object" /\ via[d].title # Undefined)
  ELSE 0

\* "title" in item, for an item that is null: a TypeError, unless find has
\* returned before it gets there
viaRaises(via) ==
  \E e \in 1..Len(via) :
    via[e].kind = "null" /\ (directVia(via) = 0 \/ directVia(via) > e)

\* the object pushed on vulnerabilities
toVulnerability(v) ==
  LET d == directVia(v.via)
  IN  [ name |-> v.name,
        severity |-> v.severity,
        title |-> IF d = 0 THEN "Transitive vulnerability" ELSE v.via[d].title,
        url |-> IF d = 0 \/ v.via[d].url = Undefined THEN "" ELSE v.via[d].url,
        fixAvailable |-> v.fixAvailable ]

\* the comparator is consistent on vs: its "equal" is transitive
ConsistentComparator(vs) ==
  \A i, j, k \in 1..Len(vs) :
    compareSeverity(vs[i], vs[j]) = 0 /\ compareSeverity(vs[j], vs[k]) = 0
      => compareSeverity(vs[i], vs[k]) = 0

\* vulnerabilities.sort(...): the stable sort, or with a comparator that is
\* not consistent an order the engine defines
sortVulnerabilities(vs, order) ==
  IF ConsistentComparator(vs) THEN SortBySeverity(vs)
  ELSE [k \in 1..Len(vs) |-> vs[order[k]]]

Returned(v) == [raised |-> FALSE, value |-> v]
Raised == [raised |-> TRUE, value |-> <<>>]

\* the inner try/catch around execSync: the text that goes on to JSON.parse,
\* "none" when the function returns the empty result from the catch
capturedStdout_ZeroExitOnly(out) == IF out.exit = 0 THEN out.stdout ELSE "none"

capturedStdout(out) ==
  IF out.exit = 0 THEN out.stdout
  ELSE IF out.stdout \in {"none", "empty"} THEN "none"   \* !execErr.stdout
  ELSE out.stdout

\* the body of the outer try block
runAuditTry(out) ==
  LET stdout == capturedStdout(out)
  IN  IF stdout = "none" THEN Returned(EmptyAudit)
      ELSE IF stdout \in {"empty", "garbage"} THEN Raised   \* JSON.parse throws
      ELSE IF stdout = "null" THEN Raised                   \* data.vulnerabilities of null
      ELSE IF stdout = "nofield" THEN Returned(EmptyAudit)  \* !data.vulnerabilities
      ELSE IF stdout = "novia" THEN Raised                  \* v.via.find of undefined
      ELSE IF \E k \in 1..Len(out.findings) : viaRaises(out.findings[k].via) THEN Raised
      ELSE Returned(
             [ vulnerabilities |->
                 sortVulnerabilities([k \in 1..Len(out.findings) |->
                                        toVulnerability(out.findings[k])], out.order),
               summary |-> [l \in DOMAIN emptySummary |->
                              Cardinality({k \in 1..Len(out.findings) :
                                             /\ isRecognized(out.findings[k].severity)
                                             /\ out.findings[k].severity = l})],
               total |-> Len(out.findings) ])

\* the outer try/catch: whatever the body raises becomes the empty result
runAuditOutcome_NoCatch(out) == runAuditTry(out)

runAuditOutcome(out) ==
  IF runAuditTry(out).raised THEN Returned(EmptyAudit) ELSE runAuditTry(out)

runAudit(out) == runAuditOutcome(out).value

\* truthiness of Vulnerability.fixAvailable: true or a {name, version} object
Truthy_OnlyTrue(fix) == fix = "true"

Truthy(fix) == fix \in {"true", "object"}

AuditOutputs ==
  { AuditOut(1, "none", <<>>),
    AuditOut(0, "nofield", <<>>),
    AuditOut(0, "report", <<>>),
    AuditOut(1, "report", <<Finding(1, "high", "false")>>),
    AuditOut(1, "report", <<Finding(1, "low", "undefined")>>),
    AuditOut(1, "report", <<Finding(1, "low", "true")>>),
    AuditOut(1, "report", <<Finding(1, "low", "false"), Finding(2, "critical", "object")>>) }

\* One run of `npm audit fix`: stdout is the list of "<word> <digits>" items
\* of the captured text (n = -1: the word is not followed by digits), or
\* absent; stderr is lines of tokens.
NoText == <<[w |-> "<none>", n |-> -1]>>

FixExec(exit, stdout, stderr) == [exit |-> exit, stdout |-> stdout, stderr |-> stderr]

\* stdout.match(/<word>\s+(\d+)/): the first match, 0 when there is none
MatchCount(stdout, word) ==
  LET hits == {k \in 1..Len(stdout) : stdout[k].w = word /\ stdout[k].n >= 0}
  IN  IF hits = {} THEN 0
      ELSE stdout[CHOOSE k \in hits : \A j \in hits : k <= j].n

FixFailed == <<"npm audit fix failed">>

\* execSync returned, or threw an error that carries a non-empty stdout
fixOutputCaptured_ZeroExitOnly(exec) == exec.exit = 0

fixOutputCaptured(exec) ==
  exec.exit = 0 \/ (exec.stdout # NoText /\ exec.stdout # <<>>)

\* stderr.includes("ERESOLVE") ? "... Try with --force." : "npm audit fix failed"
fixFailureError_AlwaysGeneric(stderr) == FixFailed

fixFailureError(stderr) ==
  LET ForceSuggestion == <<"Could not resolve dependencies. Try with ", "--force", ".">>
  IN  IF TextIncludes(stderr, ERESOLVE) THEN ForceSuggestion ELSE FixFailed

\* Math.max(0, before.total - after.total)
fixedCount_NoClamp(before, after) == before.total - after.total

fixedCount(before, after) ==
  LET Max(a, b) == IF a >= b THEN a ELSE b
  IN  Max(0, before.total - after.total)

\* The outer catch ("Unexpected error running npm audit fix") has nothing to
\* catch: runAudit does not raise and the exec error is handled inside.
runAuditFix(force, beforeOut, exec, afterOut) ==
  LET before == runAudit(beforeOut)
      after  == runAudit(afterOut)
  IN  IF ~fixOutputCaptured(exec)
      THEN [ success |-> FALSE, added |-> 0, removed |-> 0, changed |-> 0,
             fixedVulnerabilities |-> 0,
             remainingVulnerabilities |-> before.total,
             error |-> fixFailureError(exec.stderr) ]
      ELSE [ success |-> TRUE,
             added   |-> MatchCount(exec.stdout, "added"),
             removed |-> MatchCount(exec.stdout, "removed"),
             changed |-> MatchCount(exec.stdout, "changed"),
             fixedVulnerabilities |-> fixedCount(before, after),
             remainingVulnerabilities |-> after.total,
             error |-> None ]

\* the execSync commands of one runAuditFix(force) call, in the order issued:
\* runAudit's "npm audit --json", `npm audit fix${forceFlag}`, and runAudit
\* again unless the inner catch returned
runAuditFixCommands_AuditsAgainAlways(force, exec) ==
  << "npm audit --json",
     IF force THEN "npm audit fix --force" ELSE "npm audit fix",
     "npm audit --json" >>

runAuditFixCommands(force, exec) ==
  << "npm audit --json",
     IF force THEN "npm audit fix --force" ELSE "npm audit fix" >>
  \o (IF fixOutputCaptured(exec) THEN << "npm audit --json" >> ELSE <<>>)

AuditFixRuns ==
  { [before |-> AuditOut(1, "report", <<Finding(1, "low", "true")>>),
     exec   |-> FixExec(0, <<[w |-> "added", n |-> 1], [w |-> "changed", n |-> 2]>>, <<>>),
     after  |-> AuditOut(0, "report", <<>>)],
    [before |-> AuditOut(1, "report", <<Finding(1, "low", "true")>>),
     exec   |-> FixExec(1, NoText, <<<<"npm ERR! ", "code ", "ERESOLVE">>>>),
     after  |-> AuditOut(1, "none", <<>>)],
    [before |-> AuditOut(1, "report", <<Finding(1, "low", "true")>>),
     exec   |-> FixExec(1, NoText, <<<<"npm ERR! ", "code ", "EACCES">>>>),
     after  |-> AuditOut(1, "none", <<>>)] }

\* ------------------------------------------------ services/outdated.ts
\* One run of `npm outdated --json`: exit status and what was captured on
\* stdout: nothing ("none"), the empty string ("empty"), text that is not
\* JSON ("garbage"), the JSON value null ("null"), or a map ("data") whose
\* keys (package names) come in the tool's order; `missing` are the names
\* whose entry has no current version.
OutdatedOutIn(exit, stdout, names, missing) ==
  [exit |-> exit, stdout |-> stdout, names |-> names, missing |-> missing]

OutdatedOut(exit, stdout, names) == OutdatedOutIn(exit, stdout, names, {})

NoDup(s) == \A i, j \in 1..Len(s) : i # j => s[i] # s[j]

OutdatedOutputs ==
  {OutdatedOut(1, "none", <<>>), OutdatedOut(0, "garbage", <<>>)}
  \cup {OutdatedOut(e, "data", ns) : e \in {0, 1}, ns \in {s \in SeqsUpTo(Pkgs, NumPkgs) : NoDup(s)}}

\* the sort comparator: dependencies first, then by name
Before_NameOnly(a, b) == a.name < b.name

Before(a, b) ==
  IF a.type # b.type THEN a.type = "dependencies" ELSE a.name < b.name

RECURSIVE InsertOutdated(_, _)
InsertOutdated(sorted, p) ==
  IF sorted = <<>> THEN <<p>>
  ELSE IF Before(p, Head(sorted)) THEN <<p>> \o sorted
       ELSE <<Head(sorted)>> \o InsertOutdated(Tail(sorted), p)

RECURSIVE SortOutdated(_)
SortOutdated(ps) ==
  IF ps = <<>> THEN <<>>
  ELSE InsertOutdated(SortOutdated(SubSeq(ps, 1, Len(ps) - 1)), ps[Len(ps)])

EmptyOutdated == [packages |-> <<>>, total |-> 0]

\* devDeps.has(name) ? "devDependencies" : "dependencies", with
\* devDeps = new Set(Object.keys(pkgJson.devDependencies ?? {}))
depType_ByDependencies(manifest_, name) ==
  IF name \in OwnKeys(manifest_.dependencies) THEN "dependencies" ELSE "devDependencies"

depType(manifest_, name) ==
  IF name \in OwnKeys(manifest_.devDependencies) THEN "devDependencies" ELSE "dependencies"

\* the inner try/catch around execSync: the text that goes on to JSON.parse,
\* "none" when the function returns the empty result from the catch
outdatedStdout(out) ==
  IF out.exit = 0 THEN out.stdout
  ELSE IF out.stdout \in {"none", "empty"} THEN "none"   \* !execErr.stdout
  ELSE out.stdout

\* the body of the try block
getOutdatedTry(manifest_, out) ==
  LET stdout == outdatedStdout(out)
  IN  IF ~manifest_.readable THEN Raised                  \* readFileSync throws
      ELSE IF stdout = "none" THEN Returned(EmptyOutdated)
      ELSE IF stdout \in {"empty", "garbage"} THEN Raised \* JSON.parse throws
      ELSE IF stdout = "null" THEN Returned(EmptyOutdated) \* !data
      ELSE IF out.names = <<>> THEN Returned(EmptyOutdated)
      ELSE LET packages == SortOutdated(
                 [k \in 1..Len(out.names) |->
                    [ name |-> out.names[k],
                      current |-> IF out.names[k] \in out.missing
                                  THEN "MISSING" ELSE Declared,
                      type |-> depType(manifest_, out.names[k]) ]])
           IN  Returned([packages |-> packages, total |-> Len(packages)])

\* the try/catch: whatever the body raises becomes the empty result
getOutdatedOutcome_NoCatch(manifest_, out) == getOutdatedTry(manifest_, out)

getOutdatedOutcome(manifest_, out) ==
  IF getOutdatedTry(manifest_, out).raised THEN Returned(EmptyOutdated)
  ELSE getOutdatedTry(manifest_, out)

getOutdated(manifest_, out) == getOutdatedOutcome(manifest_, out).value

\* ------------------------------------------------ services/registry.ts
\* A point in time, to the millisecond: whole days since the epoch and the
\* milliseconds into the day. NaN is what getTime() gives for a string that
\* is not a date.
Time(day, ms) == [nan |-> FALSE, day |-> day, ms |-> ms]
NaN == [nan |-> TRUE, day |-> 0, ms |-> 0]

\* now - then
Elapsed(now, then) ==
  LET DayMs == 86400000          \* 1000 * 60 * 60 * 24
  IN  IF now.nan \/ then.nan THEN NaN
      ELSE IF now.ms >= then.ms THEN Time(now.day - then.day, now.ms - then.ms)
      ELSE Time(now.day - then.day - 1, now.ms - then.ms + DayMs)

\* 2 * 365 * 24 * 60 * 60 * 1000 ms, in whole days
STALE_THRESHOLD_MS == Time(2 * 365, 0)

\* diff > threshold on numbers: false when diff is NaN
GreaterThan(diff, threshold) ==
  /\ ~diff.nan
  /\ \/ diff.day > threshold.day
     \/ diff.day = threshold.day /\ diff.ms > threshold.ms

\* A timestamp string of the registry: an ISO date, the empty string, text
\* that is not a date, or no string at all (the key is absent).
IsoDate(day, ms) == [text |-> "iso", day |-> day, ms |-> ms]
EmptyDate == [text |-> "", day |-> 0, ms |-> 0]
NoDate == [text |-> Undefined, day |-> 0, ms |-> 0]

\* new Date(dateStr).getTime()
getTime(dateStr) == IF dateStr.text = "iso" THEN Time(dateStr.day, dateStr.ms) ELSE NaN

\* the label formatAge prints: "<n> days ago", "<n> month(s) ago",
\* "<n> year(s) ago", "<n>y <m>m ago", and the caller's "unknown"
AgeLabel(kind, n, m, plural) == [kind |-> kind, n |-> n, m |-> m, plural |-> plural]
UnknownAge == AgeLabel("unknown", 0, 0, FALSE)

formatAge_CalendarYears(dateStr, now) ==
  LET diff   == Elapsed(now, getTime(dateStr))
      days   == diff.day
      months == days \div 30
      years  == days \div 365
      remainingMonths == (days % 365) \div 30
  IN  IF diff.nan THEN AgeLabel("NaNy NaNm ago", 0, 0, FALSE)
      ELSE IF days < 30 THEN AgeLabel("days ago", days, 0, TRUE)
      ELSE IF months < 12 THEN AgeLabel("month ago", months, 0, months > 1)
      ELSE IF remainingMonths = 0 THEN AgeLabel("year ago", years, 0, years > 1)
      ELSE AgeLabel("y m ago", years, remainingMonths, FALSE)

formatAge(dateStr, now) ==
  LET diff   == Elapsed(now, getTime(dateStr))
      days   == diff.day                  \* Math.floor(diffMs / DayMs)
      months == days \div 30
      years  == months \div 12
      remainingMonths == months % 12
  IN  IF diff.nan THEN AgeLabel("NaNy NaNm ago", 0, 0, FALSE)
      ELSE IF days < 30 THEN AgeLabel("days ago", days, 0, TRUE)
      ELSE IF months < 12 THEN AgeLabel("month ago", months, 0, months > 1)
      ELSE IF remainingMonths = 0 THEN AgeLabel("year ago", years, 0, years > 1)
      ELSE AgeLabel("y m ago", years, remainingMonths, FALSE)

\* What one request to the registry comes to: a non-success status
\* ("status"), a transport failure ("error"), a body that is not JSON
\* ("badjson"), the JSON value null ("null"), or a document ("data") with
\* its latest dist-tag, the time entries of that version and of "modified",
\* and, for each version it lists, the deprecation message of the version
\* (Undefined when the version has none).
Response(kind, latest, published, modified, versions) ==
  [kind |-> kind, latest |-> latest, published |-> published, modified |-> modified,
   versions |-> versions]

Failure(kind) ==
  Response(kind, Undefined, NoDate, NoDate, [v \in {"1.0.0", "2.0.0"} |-> Undefined])

\* timeMap[latestVersion] ?? timeMap.modified ?? "" when there is a latest
\* tag, timeMap.modified ?? "" without one
lastPublishDate_ModifiedOnly(data) ==
  IF data.modified # NoDate THEN data.modified ELSE EmptyDate

lastPublishDate(data) ==
  IF data.latest # Undefined /\ data.latest # ""
  THEN IF data.published # NoDate THEN data.published
       ELSE IF data.modified # NoDate THEN data.modified
       ELSE EmptyDate
  ELSE IF data.modified # NoDate THEN data.modified ELSE EmptyDate

\* lastPublishDate !== "" && Date.now() - new Date(lastPublishDate).getTime() > threshold
isStale_AtThreshold(date, now) ==
  /\ date # EmptyDate
  /\ \/ GreaterThan(Elapsed(now, getTime(date)), STALE_THRESHOLD_MS)
     \/ Elapsed(now, getTime(date)) = STALE_THRESHOLD_MS

isStale(date, now) ==
  date # EmptyDate /\ GreaterThan(Elapsed(now, getTime(date)), STALE_THRESHOLD_MS)

\* let deprecated = false; if (latestVersion &&
\* data.versions?.[latestVersion]?.deprecated) deprecated = that message
deprecated_AnyVersion(data) ==
  IF \E v \in DOMAIN data.versions : data.versions[v] \notin {Undefined, ""}
  THEN (CHOOSE m \in {data.versions[v] : v \in DOMAIN data.versions} :
          m \notin {Undefined, ""})
  ELSE "<false>"

deprecated(data) ==
  IF /\ data.latest # Undefined /\ data.latest # ""
     /\ data.latest \in DOMAIN data.versions
     /\ data.versions[data.latest] # Undefined /\ data.versions[data.latest] # ""
  THEN data.versions[data.latest]
  ELSE "<false>"

NoMetadata ==
  [name |-> -1, deprecated |-> "<null>", lastPublishDate |-> EmptyDate,
   lastPublishAge |-> UnknownAge, isStale |-> FALSE]

\* getPackageMetadata(packageName), for what its request comes to; null
\* is NoMetadata
getPackageMetadata_StampsMissingDate(packageName, response, now) ==
  IF response.kind # "data" THEN NoMetadata
  ELSE LET date == IF lastPublishDate(response) = EmptyDate THEN IsoDate(now.day, now.ms)
                   ELSE lastPublishDate(response)
       IN  [ name |-> packageName,
             deprecated |-> deprecated(response),
             lastPublishDate |-> date,
             lastPublishAge |-> IF date # EmptyDate THEN formatAge(date, now) ELSE UnknownAge,
             isStale |-> isStale(date, now) ]

getPackageMetadata(packageName, response, now) ==
  IF response.kind # "data" THEN NoMetadata
  ELSE LET date == lastPublishDate(response)
       IN  [ name |-> packageName,
             deprecated |-> deprecated(response),
             lastPublishDate |-> date,
             lastPublishAge |-> IF date # EmptyDate THEN formatAge(date, now) ELSE UnknownAge,
             isStale |-> isStale(date, now) ]

\* getMultiplePackageMetadata: batches of 10
batchSize == 10

\* the frame of a call: the names, the loop index i, the names requested
\* from the registry so far, what has become of each of these requests (in
\* flight, or the value its promise resolved to), and results
NoFetch == [names |-> <<>>, i |-> 0, requests |-> <<>>, settled |-> <<>>, results |-> <<>>]

InFlight == [name |-> -2, deprecated |-> "<pending>", lastPublishDate |-> EmptyDate,
             lastPublishAge |-> UnknownAge, isStale |-> FALSE]

\* Promise.all(...) of the current batch has resolved
batchDone_Always(frame) == TRUE

batchDone(frame) == \A k \in 1..Len(frame.settled) : frame.settled[k] # InFlight

\* batchResults.filter(r => r !== null)
notNull_KeepAll(r) == TRUE

notNull(r) == r # NoMetadata

\* ------------------------------------------------- commands/update.ts
VARIABLES
  packages,   \* updateCommand argument: the explicit package names
  options,    \* updateCommand argument: {all, exact, force, fix}
  manifest,   \* package.json of the working directory
  pc,         \* where updateCommand is suspended
  tries,      \* the try blocks control is inside of, innermost last
  um,         \* updateMultiplePackages in progress: names, options, i, results
  outdated,   \* updateCommand's local `outdated`
  audit,      \* checkAndOfferAuditFix's local `audit`
  fixResult,  \* runAuditFixFlow's last AuditFixResult
  calls,      \* history: collaborator invocations in call order
  installs,   \* history: install commands run, in order
  input,      \* a service called on its own: its arguments and what its tools do
  output,     \* a service called on its own: what it returned
  reg         \* the frame of a running getMultiplePackageMetadata call

vars == <<packages, options, manifest, pc, tries, um, outdated, audit, fixResult, calls,
          installs, input, output, reg>>

Call(op, what, names, force, exact, ret) ==
  [op |-> op, what |-> what, names |-> names, force |-> force, exact |-> exact, ret |-> ret]

SetRet(log, ret) == [log EXCEPT ![Len(log)].ret = ret]

Pop(trs) == SubSeq(trs, 1, Len(trs) - 1)

NoFrame == [names |-> <<>>, options |-> [exact |-> FALSE, force |-> FALSE],
            i |-> 0, results |-> <<>>, round |-> 0, onProgress |-> FALSE, progress |-> <<>>]

NoResult == [success |-> TRUE, added |-> 0, removed |-> 0, changed |-> 0,
             fixedVulnerabilities |-> 0, remainingVulnerabilities |-> 0, error |-> None]

Manifest(readable, dependencies, devDependencies) ==
  [readable |-> readable, dependencies |-> dependencies, devDependencies |-> devDependencies]

Unreadable == Manifest(FALSE, NoSection, NoSection)

\* every package declared, in one section or the other
Manifests ==
  {Unreadable}
  \cup {Manifest(TRUE,
                  Section(TRUE, [n \in Names |-> IF n \in Pkgs \ d THEN Declared ELSE Undefined]),
                  Section(TRUE, [n \in Names |-> IF n \in d THEN Declared ELSE Undefined])) :
          d \in SUBSET Pkgs}

Init ==
  /\ packages \in SeqsUpTo(Pkgs, MaxNames)
  /\ options \in [all : BOOLEAN, exact : {"undefined", "true", "false"},
                  force : BOOLEAN, fix : BOOLEAN]
  /\ manifest \in Manifests
  /\ pc = "Idle"
  /\ tries = <<>>
  /\ um = NoFrame
  /\ outdated = EmptyOutdated
  /\ audit = EmptyAudit
  /\ fixResult = NoResult
  /\ calls = <<>>
  /\ installs = <<>>
  /\ input = <<>>
  /\ output = <<>>
  /\ reg = NoFetch

\* updaterOpts: exact defaults to true, force to false
updaterOpts == [exact |-> options.exact # "false", force |-> options.force]

\* an exception raised inside the try blocks trs
Throw_Uncaught(trs) == [pc |-> "Rejected", tries |-> <<>>]

Throw(trs) ==
  IF trs = <<>> THEN [pc |-> "Rejected", tries |-> <<>>]
  ELSE LET \* where control resumes when the catch clause of a try block has run
           CatchTarget(try) ==
             CASE try = "updateCommand"         -> "Done"
               [] try = "runUpdates"            -> "CheckAndOfferAuditFix"
               [] try = "checkAndOfferAuditFix" -> "Done"
               [] try = "runAuditFixFlow"       -> "Done"
           target == CatchTarget(trs[Len(trs)])
       IN  [pc |-> target, tries |-> IF target = "Done" THEN <<>> ELSE Pop(trs)]

\* results.filter(r => !r.success && r.error?.includes("Peer dependency conflict"))
IsFailure(r) == ~r.success

peerDepFailures_AllFailed(results) == SelectSeq(results, IsFailure)

peerDepFailures(results) ==
  LET PeerDepMarker == <<"Peer dependency conflict">>
      IsPeerDepFailure(r) == ~r.success /\ Includes(r.error, PeerDepMarker)
  IN  SelectSeq(results, IsPeerDepFailure)

\* peerDepFailures.length > 0 && !options.force
offerRetry_NoForceCheck(results, opts) == Len(peerDepFailures(results)) > 0

offerRetry(results, opts) == Len(peerDepFailures(results)) > 0 /\ ~opts.force

NamesOf(rs) == [k \in 1..Len(rs) |-> rs[k].name]

\* runUpdates(names, updaterOpts) up to its first install
StartRunUpdates(names, log, trs) ==
  /\ um' = [names |-> names, options |-> updaterOpts, i |-> 0, results |-> <<>>, round |-> 1,
            onProgress |-> TRUE, progress |-> <<>>]
  /\ calls' = Append(log, Call("updateMultiplePackages", "", names,
                               updaterOpts.force, updaterOpts.exact, "pending"))
  /\ pc' = "Updating"
  /\ tries' = trs

\* !result.success && result.error?.includes("--force") && !force
offerFixRetry_AnyFailure(result, force) == ~result.success /\ ~force

offerFixRetry(result, force) ==
  ~result.success /\ Includes(result.error, <<"--force">>) /\ ~force

\* runAuditFixFlow(force) up to its retry prompt
runAuditFixFlow_ForceOfLastUpdate(force, log, trs) ==
  \E run \in AuditFixRuns :
    LET forced == force \/ \E k \in 1..Len(log) :
                              log[k].op = "updateMultiplePackages" /\ log[k].force
        result == runAuditFix(forced, run.before, run.exec, run.after)
        log2   == Append(log, Call("runAuditFix", "", <<>>, forced, FALSE, "returned"))
    IN  /\ fixResult' = result
        /\ IF offerFixRetry(result, forced)
           THEN /\ pc' = "FixRetryConfirm"
                /\ tries' = Append(trs, "runAuditFixFlow")
                /\ calls' = Append(log2, Call("confirm", "retryFix", <<>>, FALSE, FALSE, "pending"))
           ELSE /\ pc' = "Done"
                /\ tries' = <<>>
                /\ calls' = log2

runAuditFixFlow(force, log, trs) ==
  \E run \in AuditFixRuns :
    LET result == runAuditFix(force, run.before, run.exec, run.after)
        log2   == Append(log, Call("runAuditFix", "", <<>>, force, FALSE, "returned"))
    IN  /\ fixResult' = result
        /\ IF offerFixRetry(result, force)
           THEN /\ pc' = "FixRetryConfirm"
                /\ tries' = Append(trs, "runAuditFixFlow")
                /\ calls' = Append(log2, Call("confirm", "retryFix", <<>>, FALSE, FALSE, "pending"))
           ELSE /\ pc' = "Done"
                /\ tries' = <<>>
                /\ calls' = log2

\* --fix only (no packages, no --all)
fixOnly_IgnoresPackages == options.fix /\ ~options.all

fixOnly_AllInverted == options.fix /\ Len(packages) = 0 /\ options.all

fixOnly == options.fix /\ Len(packages) = 0 /\ ~options.all

updateCommand ==
  /\ pc = "Idle"
  /\ IF fixOnly
     THEN /\ runAuditFixFlow(options.force, calls, tries)
          /\ UNCHANGED um
     ELSE IF Len(packages) > 0
     THEN /\ StartRunUpdates(packages, calls, tries)
          /\ UNCHANGED fixResult
     ELSE /\ pc' = "GetOutdated"
          /\ UNCHANGED <<tries, um, calls, fixResult>>
  /\ UNCHANGED <<reg, input, output, packages, options, manifest, outdated, audit, installs>>

\* what updateCommand does with the discovered packages
targetMode_NoAll(res) ==
  IF res.total = 0 THEN "upToDate" ELSE "interactive"

targetMode(res) ==
  IF res.total = 0 THEN "upToDate"
  ELSE IF options.all THEN "all"
  ELSE "interactive"

GetOutdated ==
  /\ pc = "GetOutdated"
  /\ \E out \in OutdatedOutputs :
       LET res == getOutdated(manifest, out)
           log == Append(calls, Call("getOutdated", "", <<>>, FALSE, FALSE, "returned"))
       IN  /\ outdated' = res
           /\ IF targetMode(res) = "upToDate"
              THEN /\ pc' = "CheckAndOfferAuditFix"
                   /\ calls' = log
                   /\ UNCHANGED <<tries, um>>
              ELSE IF targetMode(res) = "all"
              THEN StartRunUpdates(NamesOf(res.packages), log, tries)
              ELSE /\ pc' = "Checkbox"
                   /\ tries' = Append(tries, "updateCommand")
                   /\ calls' = Append(log, Call("checkbox", "", NamesOf(res.packages),
                                                FALSE, FALSE, "pending"))
                   /\ UNCHANGED um
  /\ UNCHANGED <<reg, input, output, packages, options, manifest, audit, fixResult, installs>>

\* the values checkbox can resolve to: the chosen names, in choice order
RECURSIVE Pick(_, _)
Pick(s, keep) ==
  IF s = <<>> THEN <<>>
  ELSE LET rest == Pick(SubSeq(s, 1, Len(s) - 1), keep)
       IN  IF Len(s) \in keep THEN Append(rest, s[Len(s)]) ELSE rest

\* a prompt resolves to an answer or rejects (Ctrl+C)
Answers == {"yes", "no", "cancel"}

CheckboxAnswers(choices) ==
  {[cancelled |-> FALSE, selected |-> Pick(choices, keep)] : keep \in SUBSET (1..Len(choices))}
  \cup {[cancelled |-> TRUE, selected |-> <<>>]}

\* await checkbox(...) and what follows it, short of the installs
CheckboxAnswer_NoEarlyReturn(ans) ==
  IF ans.cancelled
  THEN LET t == Throw(tries)
       IN  [pc |-> t.pc, tries |-> t.tries, run |-> FALSE, calls |-> SetRet(calls, "cancel")]
  ELSE IF Len(ans.selected) = 0
  THEN [pc |-> "CheckAndOfferAuditFix", tries |-> Pop(tries), run |-> FALSE,
        calls |-> SetRet(calls, "none")]
  ELSE [pc |-> "Updating", tries |-> tries, run |-> TRUE, calls |-> SetRet(calls, "some")]

CheckboxAnswer(ans) ==
  IF ans.cancelled
  THEN LET t == Throw(tries)
       IN  [pc |-> t.pc, tries |-> t.tries, run |-> FALSE, calls |-> SetRet(calls, "cancel")]
  ELSE IF Len(ans.selected) = 0
  THEN [pc |-> "Done", tries |-> <<>>, run |-> FALSE, calls |-> SetRet(calls, "none")]
  ELSE [pc |-> "Updating", tries |-> tries, run |-> TRUE, calls |-> SetRet(calls, "some")]

Checkbox ==
  /\ pc = "Checkbox"
  /\ \E ans \in CheckboxAnswers(NamesOf(outdated.packages)) :
       LET e == CheckboxAnswer(ans)
       IN  IF e.run
           THEN StartRunUpdates(ans.selected, e.calls, e.tries)
           ELSE /\ pc' = e.pc
                /\ tries' = e.tries
                /\ calls' = e.calls
                /\ UNCHANGED um
  /\ UNCHANGED <<reg, input, output, packages, options, manifest, outdated, audit, fixResult, installs>>

\* results[i] has been pushed and onProgress has not been called for it yet
awaitingProgress_Never(frame) == FALSE

awaitingProgress(frame) == Len(frame.results) > frame.i

\* one iteration of updateMultiplePackages, up to results.push:
\* await updatePackage(names[i], options)
UpdatePackage ==
  /\ pc = "Updating"
  /\ um.i < Len(um.names)
  /\ ~awaitingProgress(um)
  /\ LET name == um.names[um.i + 1]
     IN  IF ~manifest.readable
         THEN \* getCurrentVersion throws before the try block is entered
              LET t == Throw(tries)
              IN  /\ pc' = t.pc
                  /\ tries' = t.tries
                  /\ um' = NoFrame
                  /\ calls' = SetRet(calls, "threw")
                  /\ UNCHANGED <<installs, manifest>>
         ELSE \E exec \in InstallOutcomes :
                LET cmd == InstallCmd(manifest, name, um.options)
                IN  /\ installs' = Append(installs, cmd)
                    /\ manifest' = IF exec.ok THEN Installed(manifest, cmd) ELSE manifest
                    /\ um' = [um EXCEPT !.results =
                                 Append(@, updatePackage(manifest, name, um.options, exec))]
                    /\ UNCHANGED <<pc, tries, calls>>
  /\ UNCHANGED <<reg, input, output, packages, options, outdated, audit, fixResult>>

\* the rest of the iteration: onProgress?.(result, i, names.length); i++
OnProgress ==
  /\ pc = "Updating"
  /\ awaitingProgress(um)
  /\ um' = [um EXCEPT !.progress =
                        IF um.onProgress
                        THEN Append(@, [result |-> um.results[Len(um.results)],
                                        index |-> um.i, total |-> Len(um.names)])
                        ELSE @,
                      !.i = @ + 1]
  /\ UNCHANGED <<reg, input, output, packages, options, manifest, pc, tries, outdated, audit,
                 fixResult, calls, installs>>

\* updateMultiplePackages returns; runUpdates goes on to its retry decision
UpdateManyReturn ==
  /\ pc = "Updating"
  /\ um.i = Len(um.names)
  /\ IF um.round = 1 /\ offerRetry(um.results, um.options)
     THEN /\ pc' = "RetryConfirm"
          /\ tries' = Append(tries, "runUpdates")
          /\ calls' = Append(SetRet(calls, "returned"),
                             Call("confirm", "retryUpdates", <<>>, FALSE, FALSE, "pending"))
          /\ UNCHANGED um
     ELSE /\ pc' = "CheckAndOfferAuditFix"
          /\ tries' = IF um.round = 2 THEN Pop(tries) ELSE tries
          /\ calls' = SetRet(calls, "returned")
          /\ um' = NoFrame
  /\ UNCHANGED <<reg, input, output, packages, options, manifest, outdated, audit, fixResult, installs>>

\* await confirm(retry with --force?) and what follows it
RetryAnswer(ans) ==
  IF ans = "cancel"
  THEN LET t == Throw(tries)
       IN  [pc |-> t.pc, tries |-> t.tries, um |-> NoFrame, calls |-> SetRet(calls, ans)]
  ELSE IF ans = "yes"
  THEN LET retryNames == NamesOf(peerDepFailures(um.results))
           retryOpts  == [um.options EXCEPT !.force = TRUE]
       IN  [ pc |-> "Updating", tries |-> tries,
             um |-> [names |-> retryNames, options |-> retryOpts, i |-> 0,
                     results |-> <<>>, round |-> 2,
                     onProgress |-> TRUE, progress |-> <<>>],
             calls |-> Append(SetRet(calls, ans),
                              Call("updateMultiplePackages", "", retryNames,
                                   retryOpts.force, retryOpts.exact, "pending")) ]
  ELSE [pc |-> "CheckAndOfferAuditFix", tries |-> Pop(tries), um |-> NoFrame,
        calls |-> SetRet(calls, ans)]

RetryConfirm ==
  /\ pc = "RetryConfirm"
  /\ \E ans \in Answers :
       LET e == RetryAnswer(ans)
       IN  pc' = e.pc /\ tries' = e.tries /\ um' = e.um /\ calls' = e.calls
  /\ UNCHANGED <<reg, input, output, packages, options, manifest, outdated, audit, fixResult, installs>>

\* audit.vulnerabilities.filter(v => v.fixAvailable).length
fixable(a) ==
  LET IsFixable(v) == Truthy(v.fixAvailable)
  IN  Len(SelectSeq(a.vulnerabilities, IsFixable))

\* --fix was passed: run audit fix automatically
autoFix_Never == FALSE

autoFix == options.fix

checkAndOfferAuditFix ==
  /\ pc = "CheckAndOfferAuditFix"
  /\ IF autoFix
     THEN /\ runAuditFixFlow(options.force, calls, tries)
          /\ UNCHANGED audit
     ELSE \E out \in AuditOutputs :
            LET a   == runAudit(out)
                log == Append(calls, Call("runAudit", "", <<>>, FALSE, FALSE, "returned"))
            IN  /\ audit' = a
                /\ UNCHANGED fixResult
                /\ IF a.total = 0 \/ fixable(a) = 0
                   THEN pc' = "Done" /\ tries' = <<>> /\ calls' = log
                   ELSE /\ pc' = "FixConfirm"
                        /\ tries' = Append(tries, "checkAndOfferAuditFix")
                        /\ calls' = Append(log, Call("confirm", "runFix", <<>>,
                                                     FALSE, FALSE, "pending"))
  /\ UNCHANGED <<reg, input, output, packages, options, manifest, um, outdated, installs>>

\* a confirm that was answered no, or rejected
Unconfirmed(ans) ==
  IF ans = "cancel"
  THEN LET t == Throw(tries)
       IN  [pc |-> t.pc, tries |-> t.tries, calls |-> SetRet(calls, ans)]
  ELSE [pc |-> "Done", tries |-> <<>>, calls |-> SetRet(calls, ans)]

FixConfirm ==
  /\ pc = "FixConfirm"
  /\ \E ans \in Answers :
       IF ans = "yes"
       THEN runAuditFixFlow(options.force, SetRet(calls, ans), tries)
       ELSE LET e == Unconfirmed(ans)
            IN  pc' = e.pc /\ tries' = e.tries /\ calls' = e.calls /\ UNCHANGED fixResult
  /\ UNCHANGED <<reg, input, output, packages, options, manifest, um, outdated, audit, installs>>

FixRetryConfirm ==
  /\ pc = "FixRetryConfirm"
  /\ \E ans \in Answers :
       IF ans = "yes"
       THEN \E run \in AuditFixRuns :
              /\ fixResult' = runAuditFix(TRUE, run.before, run.exec, run.after)
              /\ calls' = Append(SetRet(calls, ans),
                                 Call("runAuditFix", "", <<>>, TRUE, FALSE, "returned"))
              /\ pc' = "Done"
              /\ tries' = <<>>
       ELSE LET e == Unconfirmed(ans)
            IN  pc' = e.pc /\ tries' = e.tries /\ calls' = e.calls /\ UNCHANGED fixResult
  /\ UNCHANGED <<reg, input, output, packages, options, manifest, um, outdated, audit, installs>>

Next ==
  \/ updateCommand
  \/ GetOutdated
  \/ Checkbox
  \/ UpdatePackage
  \/ OnProgress
  \/ UpdateManyReturn
  \/ RetryConfirm
  \/ checkAndOfferAuditFix
  \/ FixConfirm
  \/ FixRetryConfirm

Spec == Init /\ [][Next]_vars

\* The variables of updateCommand, at rest while a service runs on its own
AtRest ==
  /\ packages = <<>>
  /\ options = [all |-> FALSE, exact |-> "undefined", force |-> FALSE, fix |-> FALSE]
  /\ tries = <<>>
  /\ um = NoFrame
  /\ outdated = EmptyOutdated
  /\ audit = EmptyAudit
  /\ fixResult = NoResult
  /\ calls = <<>>
  /\ installs = <<>>
  /\ reg = NoFetch

\* ------------------------------ updateMultiplePackages called on its own
ManifestSamples ==
  LET
    SectionSamples ==
      {NoSection} \cup {Section(TRUE, of) : of \in [Names -> {Undefined, Declared}]}
  IN
  {Unreadable} \cup {Manifest(TRUE, d, v) : d \in SectionSamples, v \in SectionSamples}

\* a call of updateMultiplePackages(names, options, onProgress?); a call
\* with one name is updatePackage(name, options) and what it returns
InitUpdater ==
  /\ packages = <<>>
  /\ options = [all |-> FALSE, exact |-> "undefined", force |-> FALSE, fix |-> FALSE]
  /\ tries = <<>>
  /\ outdated = EmptyOutdated
  /\ audit = EmptyAudit
  /\ fixResult = NoResult
  /\ installs = <<>>
  /\ reg = NoFetch
  /\ pc = "Updating"
  /\ \E names \in SeqsUpTo(Names, MaxNames), opts \in [exact : BOOLEAN, force : BOOLEAN],
        cb \in BOOLEAN :
        /\ um = [names |-> names, options |-> opts, i |-> 0, results |-> <<>>, round |-> 0,
                 onProgress |-> cb, progress |-> <<>>]
        /\ manifest \in IF Len(names) <= 1 THEN ManifestSamples ELSE Manifests
        /\ input = [names |-> names, options |-> opts, onProgress |-> cb,
                    manifest |-> manifest]
        /\ calls = <<Call("updateMultiplePackages", "", names, opts.force, opts.exact,
                          "pending")>>
  /\ output = <<>>

\* return results
ReturnResults ==
  /\ pc = "Updating"
  /\ um.i = Len(um.names)
  /\ pc' = "Returned"
  /\ output' = <<um.results>>
  /\ calls' = SetRet(calls, "returned")
  /\ UNCHANGED <<reg, input, packages, options, manifest, tries, um, outdated, audit, fixResult,
                 installs>>

NextUpdater ==
  \/ UpdatePackage
  \/ OnProgress
  \/ ReturnResults

SpecUpdater == InitUpdater /\ [][NextUpdater]_vars

\* ---------------------------------- the failure reason of one install
InitReason ==
  LET
    LineSamples ==
      { <<"npm ERR! ", "code ", "ERESOLVE">>,
        <<"npm ERR! ", "404", " ", "Not Found">>,
        <<"npm error ", "Not Found">>,
        <<"npm ERR! ", "code ", "EACCES">>,
        <<"connect ", "ETIMEDOUT">>,
        <<"getaddrinfo ", "ENOTFOUND">>,
        <<" ", "npm ERR! ", " ", "boom", " ">>,
        <<"npm error ", "bang">>,
        <<"npm WARN ", "deprecated">> }

    FailedInstalls ==
      {InstallErr(stderr, message) :
         stderr \in SeqsUpTo(LineSamples, MaxLines),
         message \in {None, <<"Command failed: npm install">>}}
  IN
  /\ AtRest
  /\ manifest = Manifest(TRUE, NoSection, NoSection)
  /\ pc = "Failed"
  /\ input \in FailedInstalls
  /\ output = <<>>

\* the catch clause of updatePackage, for the error `input`
CatchInstallError ==
  /\ pc = "Failed"
  /\ output' = <<failureReason(input)>>
  /\ pc' = "Returned"
  /\ UNCHANGED <<reg, packages, options, manifest, tries, um, outdated, audit, fixResult,
                 calls, installs, input>>

NextReason == CatchInstallError

SpecReason == InitReason /\ [][NextReason]_vars

\* ---------------------------------------- getOutdated called on its own
\* execSync returns a string when the tool exits zero
CanExit(exit, cap) == exit = 0 => cap.stdout # "none"

InitOutdated ==
  LET
    OutdatedCaptures ==
      {[stdout |-> k, names |-> <<>>, missing |-> {}] : k \in {"none", "empty", "garbage", "null"}}
      \cup {[stdout |-> "data", names |-> ns, missing |-> ms] :
              ns \in {t \in SeqsUpTo(Names, NumPkgs + 1) : NoDup(t)},
              ms \in {{}} \cup {{n} : n \in Names}}
  IN
  /\ AtRest
  /\ manifest \in ManifestSamples
  /\ pc = "Outdated"
  /\ input \in {c \in OutdatedCaptures : \A n \in c.missing : \E k \in 1..Len(c.names) : c.names[k] = n}
  /\ output = <<>>

\* one invocation of getOutdated() in which the tool exits with `exit` and
\* leaves the text `input` on its standard output
RunOutdated(exit) ==
  /\ pc = "Outdated"
  /\ CanExit(exit, input)
  /\ \A k \in 1..Len(output) : output[k].exit # exit
  /\ output' = Append(output,
                  [exit |-> exit,
                   outcome |-> getOutdatedOutcome(manifest,
                                 OutdatedOutIn(exit, input.stdout, input.names,
                                               input.missing))])
  /\ UNCHANGED <<reg, packages, options, manifest, pc, tries, um, outdated, audit, fixResult,
                 calls, installs, input>>

NextOutdated == \E exit \in {0, 1} : RunOutdated(exit)

SpecOutdated == InitOutdated /\ [][NextOutdated]_vars

\* ---------------------------------- getPackageMetadata called on its own
Now == Time(20000, 1000)

InitMetadata ==
  LET
    NotADate == [text |-> "not a date", day |-> 0, ms |-> 0]

    \* dates around the staleness threshold, to the millisecond
    DateSamples ==
      {NoDate, EmptyDate, NotADate, IsoDate(Now.day + 1, 0)}
      \cup {IsoDate(Now.day - age, Now.ms + ms) : age \in {0, 729, 730, 731}, ms \in {-1, 0, 1}}

    \* the versions 1.0.0 and 2.0.0, each with a deprecation message, with an
    \* empty one, or with none
    VersionSamples == [{"1.0.0", "2.0.0"} -> {Undefined, "", "Use new-pkg instead"}]

    \* documents of every shape, and documents published 0..MaxAge days ago
    ResponseSamples ==
      {Failure(k) : k \in {"status", "error", "badjson", "null"}}
      \cup {Response("data", latest, published, modified, versions) :
              latest \in {Undefined, "", "2.0.0", "3.0.0"}, published \in DateSamples,
              modified \in DateSamples, versions \in VersionSamples}
      \cup {Response("data", "2.0.0", IsoDate(Now.day - age, Now.ms), NoDate,
                     [v \in {"1.0.0", "2.0.0"} |-> Undefined]) : age \in 0..MaxAge}

    \* the clock of a second call: the same reading, a millisecond or a day later
    ClockSamples == {Now, Time(Now.day, Now.ms + 1), Time(Now.day + 1, Now.ms)}
  IN
  /\ AtRest
  /\ manifest = Manifest(TRUE, NoSection, NoSection)
  /\ pc = "Metadata"
  /\ input \in [name : {1}, response : ResponseSamples, later : ClockSamples]
  /\ output = <<>>

FetchMetadata ==
  /\ pc = "Metadata"
  /\ output' = <<getPackageMetadata(input.name, input.response, Now)>>
  /\ pc' = "Returned"
  /\ UNCHANGED <<reg, packages, options, manifest, tries, um, outdated, audit, fixResult,
                 calls, installs, input>>

\* a second call for the same package, the registry answering as before
FetchAgain ==
  /\ pc = "Returned"
  /\ Len(output) = 1
  /\ output' = Append(output, getPackageMetadata(input.name, input.response, input.later))
  /\ pc' = "Twice"
  /\ UNCHANGED <<reg, packages, options, manifest, tries, um, outdated, audit, fixResult,
                 calls, installs, input>>

NextMetadata ==
  \/ FetchMetadata
  \/ FetchAgain

SpecMetadata == InitMetadata /\ [][NextMetadata]_vars

\* --------------------------- getMultiplePackageMetadata called on its own
InitRegistry ==
  /\ packages = <<>>
  /\ options = [all |-> FALSE, exact |-> "undefined", force |-> FALSE, fix |-> FALSE]
  /\ tries = <<>>
  /\ um = NoFrame
  /\ outdated = EmptyOutdated
  /\ audit = EmptyAudit
  /\ fixResult = NoResult
  /\ calls = <<>>
  /\ installs = <<>>
  /\ manifest = Manifest(TRUE, NoSection, NoSection)
  /\ pc = "Fetching"
  /\ \E n \in 0..MaxFetch :
        /\ input = [k \in 1..n |-> k]
        /\ reg = [NoFetch EXCEPT !.names = input]
  /\ output = <<>>

\* one pass of the loop body up to the await: batch.map(getPackageMetadata)
\* starts a request for every name of the slice
IssueBatch ==
  /\ pc = "Fetching"
  /\ reg.i < Len(reg.names)
  /\ LET Min(a, b) == IF a <= b THEN a ELSE b
         batch == SubSeq(reg.names, reg.i + 1, Min(reg.i + batchSize, Len(reg.names)))
     IN  reg' = [reg EXCEPT !.requests = @ \o batch,
                            !.settled = @ \o [k \in 1..Len(batch) |-> InFlight]]
  /\ pc' = "Awaiting"
  /\ UNCHANGED <<packages, options, manifest, tries, um, outdated, audit, fixResult,
                 calls, installs, input, output>>

\* a request in flight comes to an end and its promise resolves
Respond(k, response) ==
  /\ pc = "Awaiting"
  /\ k \in 1..Len(reg.settled)
  /\ reg.settled[k] = InFlight
  /\ reg' = [reg EXCEPT !.settled[k] = getPackageMetadata(reg.requests[k], response, Now)]
  /\ UNCHANGED <<packages, options, manifest, pc, tries, um, outdated, audit, fixResult,
                 calls, installs, input, output>>

\* Promise.all resolves: results.push(...batchResults.filter(notNull)); i += batchSize
CollectBatch ==
  /\ pc = "Awaiting"
  /\ batchDone(reg)
  /\ reg' = [reg EXCEPT
               !.results = @ \o SelectSeq(SubSeq(reg.settled, reg.i + 1, Len(reg.settled)),
                                          notNull),
               !.i = @ + batchSize]
  /\ pc' = "Fetching"
  /\ UNCHANGED <<packages, options, manifest, tries, um, outdated, audit, fixResult,
                 calls, installs, input, output>>

\* return results
ReturnMetadata ==
  /\ pc = "Fetching"
  /\ reg.i >= Len(reg.names)
  /\ output' = <<reg.results>>
  /\ pc' = "Returned"
  /\ UNCHANGED <<reg, packages, options, manifest, tries, um, outdated, audit, fixResult,
                 calls, installs, input>>

NextRegistry ==
  LET
    \* what a request of a batch comes to
    BatchResponses ==
      { Failure("status"), Failure("error"),
        Response("data", "2.0.0", IsoDate(Now.day - 10, 0), NoDate,
                 [v \in {"1.0.0", "2.0.0"} |-> Undefined]) }
  IN
  \/ IssueBatch
  \/ \E k \in 1..MaxFetch, response \in BatchResponses : Respond(k, response)
  \/ CollectBatch
  \/ ReturnMetadata

SpecRegistry == InitRegistry /\ [][NextRegistry]_vars

\* ---------------------------------------------------- commands/scan.ts
\* [...Object.keys(pkg.dependencies ?? {}), ...Object.keys(pkg.devDependencies ?? {})],
\* and [] when package.json cannot be read or parsed
getAllDependencyNames(manifest_) ==
  LET RECURSIVE keys(_, _)
      keys(section, n) ==
        IF n \notin Names THEN <<>>
        ELSE (IF n \in OwnKeys(section) THEN <<n>> ELSE <<>>) \o keys(section, n + 1)
  IN  IF ~manifest_.readable THEN <<>>
      ELSE keys(manifest_.dependencies, ProtoName) \o keys(manifest_.devDependencies, ProtoName)

\* the report scanCommand builds: deprecated = metadata.filter(m => m.deprecated !== false),
\* stale = metadata.filter(m => m.isStale && m.deprecated === false)
ScanReport_StaleByAgeAlone(audit_, outdated_, metadata) ==
  LET isDeprecated(m) == m.deprecated # "<false>"
      stale(m)        == m.isStale
  IN  [audit |-> audit_, outdated |-> outdated_,
       deprecated |-> SelectSeq(metadata, isDeprecated), stale |-> SelectSeq(metadata, stale)]

ScanReport(audit_, outdated_, metadata) ==
  LET isDeprecated(m) == m.deprecated # "<false>"
      stale(m)        == m.isStale /\ m.deprecated = "<false>"
  IN  [audit |-> audit_, outdated |-> outdated_,
       deprecated |-> SelectSeq(metadata, isDeprecated), stale |-> SelectSeq(metadata, stale)]

\* displayFullReport(report): the vulnerability table looks up
\* severityColor[vuln.severity] and calls it, which raises a TypeError for
\* a severity that is not one of the five levels (utils/display.ts)
displayFullReport(report) ==
  IF \E k \in 1..Len(report.audit.vulnerabilities) :
       ~isRecognized(report.audit.vulnerabilities[k].severity)
  THEN "raised"
  ELSE "rendered"

\* scanCommand called: what the tools leave on their outputs is `input`.
InitScan ==
  LET
    AuditSamples ==
      { AuditOut(1, "none", <<>>), AuditOut(0, "report", <<>>),
        AuditOut(1, "report", <<Finding(1, "high", "true")>>),
        AuditOut(1, "report", <<Finding(1, "unrated", "false")>>) }

    OutdatedSamples ==
      { OutdatedOut(1, "none", <<>>), OutdatedOut(1, "data", <<1>>),
        OutdatedOut(1, "data", <<2, 1>>) }
  IN
  /\ AtRest
  /\ manifest \in Manifests \cup {Manifest(TRUE, NoSection, NoSection)}
  /\ pc = "Scan"
  /\ input \in [audit : AuditSamples, outdated : OutdatedSamples, json : BOOLEAN]
  /\ output = <<>>

\* scanCommand up to its await of getMultiplePackageMetadata: the check of
\* package.json, runAudit(), getOutdated(), getAllDependencyNames().
\* input.json tells whether the text of package.json parses.
scanCommand_GoesOn ==
  /\ pc = "Scan"
  /\ LET pkg == IF input.json THEN manifest ELSE Unreadable
     IN  /\ audit' = runAudit(input.audit)
         /\ outdated' = getOutdated(pkg, input.outdated)
         /\ calls' = calls \o
                       (IF ~manifest.readable
                        THEN <<Call("process.exit", "1", <<>>, FALSE, FALSE, "exited")>>
                        ELSE <<>>) \o
                       << Call("runAudit", "", <<>>, FALSE, FALSE, "returned"),
                          Call("getOutdated", "", <<>>, FALSE, FALSE, "returned") >>
         /\ reg' = [NoFetch EXCEPT !.names = getAllDependencyNames(pkg)]
         /\ pc' = "Fetching"
  /\ UNCHANGED <<packages, options, manifest, tries, um, fixResult, installs, input, output>>

scanCommand ==
  /\ pc = "Scan"
  /\ IF ~manifest.readable
     THEN /\ pc' = "Exited"
          /\ calls' = Append(calls, Call("process.exit", "1", <<>>, FALSE, FALSE, "exited"))
          /\ UNCHANGED <<audit, outdated, reg>>
     ELSE LET pkg == IF input.json THEN manifest ELSE Unreadable
          IN  /\ audit' = runAudit(input.audit)
              /\ outdated' = getOutdated(pkg, input.outdated)
              /\ calls' = calls \o
                            << Call("runAudit", "", <<>>, FALSE, FALSE, "returned"),
                               Call("getOutdated", "", <<>>, FALSE, FALSE, "returned") >>
              /\ reg' = [NoFetch EXCEPT !.names = getAllDependencyNames(pkg)]
              /\ pc' = "Fetching"
  /\ UNCHANGED <<packages, options, manifest, tries, um, fixResult, installs, input, output>>

\* the rest of scanCommand, once the metadata is there: build the report,
\* displayFullReport(report); an exception lands in the catch clause, which
\* ends the process with status 1
DisplayReport ==
  /\ pc = "Returned"
  /\ Len(output) = 1
  /\ LET report == ScanReport(audit, outdated, output[1])
         shown  == displayFullReport(report)
         log    == Append(calls, Call("displayFullReport", "", <<>>, FALSE, FALSE, shown))
     IN  /\ output' = Append(output, report)
         /\ IF shown = "raised"
            THEN /\ pc' = "Exited"
                 /\ calls' = Append(log, Call("process.exit", "1", <<>>, FALSE, FALSE, "exited"))
            ELSE /\ pc' = "Done"
                 /\ calls' = log
  /\ UNCHANGED <<reg, packages, options, manifest, tries, um, outdated, audit, fixResult,
                 installs, input>>

NextScan ==
  LET
    \* what a lookup comes to: a failure, or a package that is fine, stale,
    \* or deprecated and stale
    ScanResponses ==
      { Failure("error"),
        Response("data", "2.0.0", IsoDate(Now.day - 10, 0), NoDate,
                 [v \in {"1.0.0", "2.0.0"} |-> Undefined]),
        Response("data", "2.0.0", IsoDate(Now.day - 800, 0), NoDate,
                 [v \in {"1.0.0", "2.0.0"} |-> Undefined]),
        Response("data", "2.0.0", IsoDate(Now.day - 800, 0), NoDate,
                 [v \in {"1.0.0", "2.0.0"} |-> "Use new-pkg instead"]) }
  IN
  \/ scanCommand
  \/ IssueBatch
  \/ \E k \in 1..(2 * (NumPkgs + 1)), response \in ScanResponses : Respond(k, response)
  \/ CollectBatch
  \/ ReturnMetadata
  \/ DisplayReport

SpecScan == InitScan /\ [][NextScan]_vars

\* ------------------------------------------- runAudit called on its own
InitAudit ==
  LET
    \* reports of up to MaxFindings findings of sampled severities, one of them
    \* not a listed level, and reports of one finding with a sampled via-list
    SeveritySamples == {"critical", "moderate", "low", "unrated"}

    FindingSamples ==
      {Finding(n, s, IF n = 1 THEN "true" ELSE "false") :
         n \in 1..MaxFindings, s \in SeveritySamples}

    ViaNull == [kind |-> "null", title |-> Undefined, url |-> Undefined]

    ViaEntries ==
      { ViaString, ViaNull, ViaObject("T1", "U1"), ViaObject("T2", Undefined),
        ViaObject(Undefined, "U3") }

    ViaSamples == SeqsUpTo(ViaEntries, MaxVia)

    Reports ==
      {fs \in SeqsUpTo(FindingSamples, MaxFindings) : \A k \in 1..Len(fs) : fs[k].name = k}
      \cup {<<FindingVia(1, "high", "true", via)>> : via \in ViaSamples}

    Perms(n) == {p \in [1..n -> 1..n] : \A a, b \in 1..n : a # b => p[a] # p[b]}

    EngineOrders(fs) ==
      IF ConsistentComparator(fs) THEN {[k \in 1..Len(fs) |-> k]} ELSE Perms(Len(fs))

    Captures ==
      {[stdout |-> k, findings |-> <<>>, order |-> <<>>] :
         k \in {"none", "empty", "garbage", "null", "nofield", "novia"}}
      \cup UNION {{[stdout |-> "report", findings |-> fs, order |-> o] : o \in EngineOrders(fs)} :
                    fs \in Reports}
  IN
  /\ AtRest
  /\ manifest = Manifest(TRUE, NoSection, NoSection)
  /\ pc = "Audit"
  /\ input \in Captures
  /\ output = <<>>

\* one invocation of runAudit() in which the tool exits with `exit` and
\* leaves the text `input` on its standard output
RunAudit(exit) ==
  /\ pc = "Audit"
  /\ CanExit(exit, input)
  /\ \A k \in 1..Len(output) : output[k].exit # exit
  /\ output' = Append(output,
                  [exit |-> exit,
                   outcome |-> runAuditOutcome(AuditOutIn(exit, input.stdout, input.findings,
                                                         input.order))])
  /\ UNCHANGED <<reg, packages, options, manifest, pc, tries, um, outdated, audit, fixResult,
                 calls, installs, input>>

NextAudit == \E exit \in {0, 1} : RunAudit(exit)

SpecAudit == InitAudit /\ [][NextAudit]_vars

\* ---------------------------------------- runAuditFix called on its own
InitAuditFix ==
  LET
    \* audits with every total from 0 to MaxFindings, and one that fails outright
    AuditTotals ==
      {AuditOut(1, "none", <<>>)}
      \cup {AuditOut(IF k = 0 THEN 0 ELSE 1, "report", [i \in 1..k |-> Finding(i, "low", "true")]) :
              k \in 0..MaxFindings}

    ItemSamples ==
      { [w |-> "added", n |-> 2], [w |-> "added", n |-> -1], [w |-> "removed", n |-> 1],
        [w |-> "changed", n |-> 5], [w |-> "audited", n |-> 7] }

    StderrSamples ==
      { <<>>, <<<<"npm ERR! ", "code ", "ERESOLVE">>>>, <<<<"npm ERR! ", "code ", "EACCES">>>>,
        <<<<"npm WARN ", "deprecated">>, <<"ERESOLVE", " could not resolve">>>> }

    FixExecs ==
      {FixExec(e, so, se) : e \in {0, 1}, so \in {NoText} \cup SeqsUpTo(ItemSamples, MaxItems),
                            se \in StderrSamples}
  IN
  /\ AtRest
  /\ manifest = Manifest(TRUE, NoSection, NoSection)
  /\ pc = "AuditFix"
  /\ input \in {in \in [force : BOOLEAN, before : AuditTotals, exec : FixExecs,
                         after : AuditTotals] :
                  in.exec.exit = 0 => in.exec.stdout # NoText}
  /\ output = <<>>

RunAuditFix ==
  /\ pc = "AuditFix"
  /\ output' = <<runAuditFix(input.force, input.before, input.exec, input.after)>>
  /\ calls' = LET cmds == runAuditFixCommands(input.force, input.exec)
              IN  [k \in 1..Len(cmds) |->
                     Call("execSync", cmds[k], <<>>, FALSE, FALSE, "returned")]
  /\ pc' = "Returned"
  /\ UNCHANGED <<reg, packages, options, manifest, tries, um, outdated, audit, fixResult,
                 installs, input>>

NextAuditFix == RunAuditFix

SpecAuditFix == InitAuditFix /\ [][NextAuditFix]_vars

\* ------------------------------- the choices of the interactive selection
\* A version is the sequence of its characters.

\* parseInt(version.replace(/^[^0-9]*/, "").split(".")[0], 10): -1 stands for NaN
majorOf(version) ==
  LET Digit == <<"0", "1", "2", "3", "4", "5", "6", "7", "8", "9">>
      isDigit(c) == \E d \in 1..10 : Digit[d] = c
      valueOf(c) == (CHOOSE d \in 1..10 : Digit[d] = c) - 1
      \* replace(/^[^0-9]*/, ""): drop the characters before the first digit
      digitsAt == {i \in 1..Len(version) : isDigit(version[i])}
      replaced == IF digitsAt = {} THEN <<>>
                  ELSE SubSeq(version, CHOOSE i \in digitsAt : \A j \in digitsAt : i <= j,
                              Len(version))
      \* split(".")[0]: the characters before the first "."
      dotsAt == {i \in 1..Len(replaced) : replaced[i] = "."}
      first == IF dotsAt = {} THEN replaced
               ELSE SubSeq(replaced, 1, (CHOOSE i \in dotsAt : \A j \in dotsAt : i <= j) - 1)
      \* parseInt(first, 10): the digits first begins with, NaN when there are none
      stopsAt == {i \in 1..Len(first) : ~isDigit(first[i])}
      numeral == IF stopsAt = {} THEN first
                 ELSE SubSeq(first, 1, (CHOOSE i \in stopsAt : \A j \in stopsAt : i <= j) - 1)
      RECURSIVE decimal(_)
      decimal(ds) == IF ds = <<>> THEN 0
                     ELSE 10 * decimal(SubSeq(ds, 1, Len(ds) - 1)) + valueOf(ds[Len(ds)])
  IN  IF numeral = <<>> THEN -1 ELSE decimal(numeral)

isMajorUpdate_AnyOtherMajor(current, latest) ==
  majorOf(current) # -1 /\ majorOf(latest) # -1 /\ majorOf(latest) # majorOf(current)

isMajorUpdate(current, latest) ==
  majorOf(current) # -1 /\ majorOf(latest) # -1 /\ majorOf(latest) > majorOf(current)

\* outdated.packages.map((pkg) => ({name, value, checked})) for one package,
\* from its entry in the tool's report: current is pkg.current ?? "MISSING"
choices(entry) ==
  LET MISSING == <<"M", "I", "S", "S", "I", "N", "G">>
      pkg == [ name |-> entry.name,
               current |-> IF entry.current = <<Undefined>> THEN MISSING ELSE entry.current,
               latest |-> entry.latest ]
  IN  << [value |-> pkg.name, checked |-> ~isMajorUpdate(pkg.current, pkg.latest)] >>

InitChoices ==
  LET
    VersionSamples ==
      { <<"1", ".", "0", ".", "0">>, <<"1", ".", "9", ".", "2">>, <<"2", ".", "0", ".", "0">>,
        <<"0", ".", "9", ".", "0">>, <<"0", ".", "1", "0", ".", "0">>,
        <<"9", ".", "0", ".", "0">>, <<"1", "0", ".", "0", ".", "0">>,
        <<"2", ".", "0", ".", "0", "-", "r", "c", ".", "1">>,
        <<"v", "2", ".", "0", ".", "0">>, <<"3">>, <<"g", "i", "t">>, <<>> }
  IN
  /\ AtRest
  /\ manifest = Manifest(TRUE, NoSection, NoSection)
  /\ pc = "Choices"
  /\ input \in [name : {1}, current : VersionSamples \cup {<<Undefined>>},
                  latest : VersionSamples]
  /\ output = <<>>

BuildChoices ==
  /\ pc = "Choices"
  /\ output' = choices(input)
  /\ pc' = "Checkbox"
  /\ UNCHANGED <<reg, packages, options, manifest, tries, um, outdated, audit, fixResult,
                 calls, installs, input>>

NextChoices == BuildChoices

SpecChoices == InitChoices /\ [][NextChoices]_vars

\* ------------------------------------------------------------ properties
Invoked(op) == \E k \in 1..Len(calls) : calls[k].op = op

UpdateCalls == SelectSeq(calls, LAMBDA c : c.op = "updateMultiplePackages")

Asked(what) == \E k \in 1..Len(calls) : calls[k].op = "confirm" /\ calls[k].what = what

Answered(what, ans) ==
  \E k \in 1..Len(calls) : calls[k].op = "confirm" /\ calls[k].what = what /\ calls[k].ret = ans

Selected(how) == \E k \in 1..Len(calls) : calls[k].op = "checkbox" /\ calls[k].ret = how

\* the first updateMultiplePackages call is returning (the step out of its loop)
FirstUpdateReturns ==
  /\ pc = "Updating" /\ um.round = 1 /\ um.i = Len(um.names)
  /\ pc' # "Updating"

HasClassifiedPeerDepFailure(results) ==
  \E k \in 1..Len(results) : ~results[k].success /\ results[k].error = PeerDepReason

HasPeerDepTextFailure(results) ==
  \E k \in 1..Len(results) :
     ~results[k].success /\ Includes(results[k].error, <<"Peer dependency conflict">>)

ForcedRunsOnce ==
  options.force =>
    /\ ~Asked("retryUpdates")
    /\ Len(UpdateCalls) <= 1
    /\ (pc \in {"CheckAndOfferAuditFix", "FixConfirm", "FixRetryConfirm", "Done"}
          /\ (Len(packages) > 0 \/ Selected("some") \/ (options.all /\ outdated.total > 0))
        => Len(UpdateCalls) = 1)

\* C1 as stated: when the first updateMany call returns, the forced-retry
\* prompt is asked iff some result failed with the peer-dependency-conflict
\* classification and force was not set; with force set there is no retry
\* prompt and a single updateMany call.
C1_AsStated ==
  [][ /\ FirstUpdateReturns =>
           (Asked("retryUpdates")' <=>
              (HasClassifiedPeerDepFailure(um.results) /\ ~options.force))
      /\ ForcedRunsOnce' ]_vars

\* C1 amended: when the first updateMany call returns, the forced-retry
\* prompt is asked iff some result failed with a reason that contains the
\* text "Peer dependency conflict" and force was not set; with force set
\* there is no retry prompt and updateMany is called exactly once.
C1_RetryPromptIff ==
  [][ /\ FirstUpdateReturns =>
           (Asked("retryUpdates")' <=>
              (HasPeerDepTextFailure(um.results) /\ ~options.force))
      /\ ForcedRunsOnce' ]_vars

C1_Witness ==
  /\ pc = "RetryConfirm"
  /\ Len(um.results) = 2
  /\ um.results[1].success
  /\ um.results[2].error = PeerDepReason

\* the names the retry is owed, spelled out on the first-round results
RECURSIVE NamesFailingWith(_, _)
NamesFailingWith(results, exactly) ==
  IF results = <<>> THEN <<>>
  ELSE LET r == Head(results)
           hit == /\ ~r.success
                  /\ IF exactly THEN r.error = PeerDepReason
                     ELSE Includes(r.error, <<"Peer dependency conflict">>)
       IN  (IF hit THEN <<r.name>> ELSE <<>>) \o NamesFailingWith(Tail(results), exactly)

RetryConfirmed == pc = "RetryConfirm" /\ calls'[Len(calls)].ret = "yes"

SecondCallIs(names) ==
  /\ Len(calls') = Len(calls) + 1
  /\ calls'[Len(calls')] =
       Call("updateMultiplePackages", "", names, TRUE, options.exact # "false", "pending")
  /\ um'.names = names /\ um'.options = [exact |-> options.exact # "false", force |-> TRUE]

\* C2 as stated: a confirmed retry calls updateMany again with exactly the
\* names of the first-round results whose failure reason is exactly the
\* peer-dependency-conflict classification, in order, force=true, same exact.
C2_AsStated ==
  [][RetryConfirmed => SecondCallIs(NamesFailingWith(um.results, TRUE))]_vars

\* C2 amended: a confirmed retry calls updateMany a second time with exactly
\* the names of the first-round results that failed with a reason containing
\* the text "Peer dependency conflict", in first-round order, with force=true
\* and the unchanged exact setting; nothing else is retried.
C2_RetryArguments ==
  [][RetryConfirmed => SecondCallIs(NamesFailingWith(um.results, FALSE))]_vars

C2_Witness ==
  /\ Len(UpdateCalls) = 2
  /\ Len(UpdateCalls[1].names) = 2
  /\ Len(UpdateCalls[2].names) = 1
  /\ UpdateCalls[2].force /\ ~UpdateCalls[1].force
  /\ pc = "Done"

\* what a prompt's answer leaves behind, the recorded answer aside
Control(e) == [pc |-> e.pc, tries |-> e.tries]

CancelActsAsDecline ==
  /\ pc = "Checkbox" =>
       LET cancel == CheckboxAnswer([cancelled |-> TRUE, selected |-> <<>>])
           empty  == CheckboxAnswer([cancelled |-> FALSE, selected |-> <<>>])
       IN  Control(cancel) = Control(empty) /\ cancel.run = empty.run
  /\ pc = "RetryConfirm" =>
       /\ Control(RetryAnswer("cancel")) = Control(RetryAnswer("no"))
       /\ RetryAnswer("cancel").um = RetryAnswer("no").um
  /\ pc \in {"FixConfirm", "FixRetryConfirm"} =>
       Control(Unconfirmed("cancel")) = Control(Unconfirmed("no"))

SomeCancel == \E k \in 1..Len(calls) : calls[k].ret = "cancel"

\* C3: at each of the four prompts (selection, forced-update retry, run fix,
\* forced-fix retry) a cancellation leaves updateCommand exactly where the
\* declined answer (empty selection / no) leaves it, so the same invocations
\* follow, and a run in which a prompt was cancelled never ends rejected.
C3_CancelIsDecline ==
  /\ CancelActsAsDecline
  /\ SomeCancel => pc # "Rejected"

C3_Witness ==
  /\ pc = "Done"
  /\ Answered("retryUpdates", "cancel")
  /\ Answered("runFix", "cancel")

FixOnlyEntry == options.fix /\ Len(packages) = 0 /\ ~options.all

\* C4: called with fix set, no package names and no update-everything flag,
\* updateCommand goes straight to runAuditFix; discovery, the selection
\* prompt and updateMany are never invoked in that run.
C4_FixOnlyEntry ==
  FixOnlyEntry =>
    /\ ~Invoked("getOutdated") /\ ~Invoked("checkbox") /\ ~Invoked("updateMultiplePackages")
    /\ pc # "Idle" =>
         /\ Len(calls) > 0
         /\ calls[1].op = "runAuditFix" /\ calls[1].force = options.force

C4_Witness ==
  /\ FixOnlyEntry
  /\ pc = "Done"
  /\ Len(calls) = 1
  /\ calls[1].op = "runAuditFix"

\* C5: with explicit package names, discovery and the selection prompt are
\* never invoked and the first updateMany call receives exactly the supplied
\* names in the supplied order, also when the update-everything flag is set.
C5_ExplicitNames ==
  Len(packages) > 0 =>
    /\ ~Invoked("getOutdated") /\ ~Invoked("checkbox")
    /\ pc # "Idle" =>
         /\ Len(calls) > 0
         /\ calls[1].op = "updateMultiplePackages"
         /\ calls[1].names = packages
         /\ calls[1].force = options.force
         /\ calls[1].exact = (options.exact # "false")

C5_Witness ==
  /\ Len(packages) = 2 /\ packages[1] > packages[2]
  /\ options.all /\ options.fix
  /\ pc = "Done"
  /\ Len(UpdateCalls) = 1
  /\ UpdateCalls[1].names = packages

Ended == pc \in {"Done", "Rejected"}

AuditCheckReached == Invoked("runAudit") \/ Invoked("runAuditFix")

\* C6: every run of updateCommand that is neither the fix-only entry nor an
\* empty or cancelled interactive selection reaches the post-update audit
\* check: with nothing outdated (and no updateMany call), and after Updating
\* whatever the update outcomes are.
C6_AuditCheckReached ==
  Ended /\ ~FixOnlyEntry /\ ~Selected("none") /\ ~Selected("cancel") => AuditCheckReached

\* C7: with the update-everything flag and no explicit names, updateMany is
\* given all discovered outdated names in discovery order and the selection
\* prompt is never shown.
C7_UpdateAll ==
  options.all /\ Len(packages) = 0 =>
    /\ ~Invoked("checkbox")
    /\ Len(UpdateCalls) > 0 =>
         /\ UpdateCalls[1].names = [k \in 1..Len(outdated.packages) |-> outdated.packages[k].name]
         /\ Len(UpdateCalls[1].names) = outdated.total
    /\ Invoked("getOutdated") /\ outdated.total > 0 => Len(UpdateCalls) > 0

C7_Witness ==
  /\ options.all /\ Len(packages) = 0
  /\ pc = "Done"
  /\ Len(UpdateCalls) > 0
  /\ Len(UpdateCalls[1].names) = 2
  /\ outdated.packages[1].name > outdated.packages[2].name

\* C8: in interactive mode an empty selection ends updateCommand: updateMany,
\* the post-update audit and runAuditFix are never invoked in that run.
C8_EmptySelection ==
  Selected("none") =>
    /\ pc = "Done"
    /\ ~Invoked("updateMultiplePackages") /\ ~Invoked("runAudit") /\ ~Invoked("runAuditFix")
    /\ ~Invoked("confirm")

C8_Witness == Selected("none") /\ pc = "Done" /\ outdated.total = 2

HasFixableFinding(a) ==
  \E k \in 1..Len(a.vulnerabilities) : a.vulnerabilities[k].fixAvailable \in {"true", "object"}

\* C9: with the fix option not set, the run-fix confirmation is asked iff
\* the audit reports a vulnerability whose fixAvailable is true or a
\* remediation-target object; with no vulnerability or none fixable neither
\* the prompt nor runAuditFix is invoked; runAuditFix follows only a yes.
C9_FixOffer ==
  ~options.fix =>
    /\ Invoked("runAudit") => (Asked("runFix") <=> HasFixableFinding(audit))
    /\ ~Invoked("runAudit") => ~Asked("runFix")
    /\ Invoked("runAuditFix") => Answered("runFix", "yes")

C9_Witness ==
  /\ ~options.fix
  /\ pc = "Done"
  /\ audit.total = 2
  /\ audit.vulnerabilities[1].fixAvailable = "object"
  /\ Answered("runFix", "yes")
  /\ Invoked("runAuditFix")

AuditCheckWithFix == pc = "CheckAndOfferAuditFix" /\ options.fix /\ pc' # pc

\* C10: when the caller set the fix option, the post-update audit check
\* invokes runAuditFix directly: no run-fix confirmation is asked and no
\* audit is run by the orchestrator first, whatever the vulnerabilities.
C10_AutoFix ==
  [][ /\ AuditCheckWithFix =>
           /\ Len(calls') > Len(calls)
           /\ calls'[Len(calls) + 1].op = "runAuditFix"
           /\ calls'[Len(calls) + 1].force = options.force
      /\ (options.fix =>  ~Asked("runFix") /\ ~Invoked("runAudit"))' ]_vars

C10_Witness ==
  /\ options.fix
  /\ Len(UpdateCalls) = 1
  /\ calls[Len(calls)].op = "runAuditFix"
  /\ pc = "Done"

FixCalls == SelectSeq(calls, LAMBDA c : c.op = "runAuditFix")

\* the step in which runAuditFix is invoked for the first time in the run
FirstFixReturns == Len(FixCalls) = 0 /\ Len(FixCalls') = 1

FixRetryKept ==
  /\ Len(FixCalls) <= 2
  /\ Len(FixCalls) = 2 => Answered("retryFix", "yes") /\ FixCalls[2].force
  /\ Answered("retryFix", "no") \/ Answered("retryFix", "cancel") => Len(FixCalls) = 1
  /\ Answered("retryFix", "yes") => Len(FixCalls) = 2 /\ pc = "Done"

\* C11: after the first runAuditFix of a run, the forced-fix-retry prompt is
\* asked iff that result has success=false with the resolution-conflict
\* error (the one suggesting a forced retry) and force was not active;
\* runAuditFix runs a second time, with force=true, only after a yes, and a
\* declined or cancelled prompt means no retry.
C11_FixRetry ==
  [][ /\ FirstFixReturns =>
           (Asked("retryFix")' <=>
              /\ ~fixResult'.success
              /\ fixResult'.error =
                   <<"Could not resolve dependencies. Try with ", "--force", ".">>
              /\ ~FixCalls'[1].force)
      /\ FirstFixReturns => FixCalls'[1].force = options.force
      /\ FixRetryKept' ]_vars

C11_Witness ==
  /\ pc = "Done"
  /\ Len(FixCalls) = 2
  /\ ~FixCalls[1].force /\ FixCalls[2].force
  /\ Answered("retryFix", "yes")

Total(auditOut) ==
  IF auditOut.stdout = "report" THEN Len(auditOut.findings) ELSE 0

FixReturned == pc = "Returned" /\ Len(output) = 1

\* C16: a successful runAuditFix reports fixed = max(0, before.total -
\* after.total) and remaining = after.total; the fixed count is never
\* negative, also when the after total exceeds the before total.
C16_FixedCount ==
  FixReturned /\ output[1].success =>
    LET b == Total(input.before)
        a == Total(input.after)
    IN  /\ output[1].fixedVulnerabilities = (IF b > a THEN b - a ELSE 0)
        /\ output[1].fixedVulnerabilities >= 0
        /\ output[1].remainingVulnerabilities = a

C16_Witness ==
  /\ FixReturned /\ output[1].success
  /\ Total(input.after) > Total(input.before)
  /\ output[1].fixedVulnerabilities = 0

\* the count the output text gives for a word: the digits after its first
\* occurrence that is followed by digits, 0 when there is none
CountIs(stdout, word, n) ==
  \/ n = 0 /\ \A k \in 1..Len(stdout) : ~(stdout[k].w = word /\ stdout[k].n >= 0)
  \/ \E k \in 1..Len(stdout) :
       /\ stdout[k].w = word /\ stdout[k].n = n /\ n >= 0
       /\ \A j \in 1..(k - 1) : ~(stdout[j].w = word /\ stdout[j].n >= 0)

HasOutput(exec) == exec.stdout # NoText /\ exec.stdout # <<>>

\* C17: whenever the remediation command produced captured output,
\* runAuditFix returns success=true, for a zero and for a non-zero exit, with
\* the counts parsed from the output (missing words counted as 0): the same
\* result as for a zero exit with the same output.
C17_CapturedOutputSucceeds ==
  FixReturned /\ HasOutput(input.exec) =>
    /\ output[1].success
    /\ output[1].error = None
    /\ CountIs(input.exec.stdout, "added", output[1].added)
    /\ CountIs(input.exec.stdout, "removed", output[1].removed)
    /\ CountIs(input.exec.stdout, "changed", output[1].changed)
    /\ output[1] = runAuditFix(input.force, input.before,
                               [input.exec EXCEPT !.exit = 0], input.after)

C17_Witness ==
  /\ FixReturned /\ HasOutput(input.exec)
  /\ input.exec.exit # 0
  /\ output[1].success
  /\ output[1].added = 2 /\ output[1].removed = 0

\* C18: when the remediation command fails with no captured output,
\* runAuditFix returns success=false, added/removed/changed/fixed all 0,
\* remaining = the before-audit total, and an error message that suggests a
\* forced retry iff the captured error text contains ERESOLVE.
C18_FailureWithoutOutput ==
  FixReturned /\ input.exec.exit # 0 /\ ~HasOutput(input.exec) =>
    /\ ~output[1].success
    /\ output[1].added = 0 /\ output[1].removed = 0 /\ output[1].changed = 0
    /\ output[1].fixedVulnerabilities = 0
    /\ output[1].remainingVulnerabilities = Total(input.before)
    /\ output[1].error # None
    /\ Includes(output[1].error, <<"--force">>)
         <=> \E l \in 1..Len(input.exec.stderr) :
               \E t \in 1..Len(input.exec.stderr[l]) : input.exec.stderr[l][t] = "ERESOLVE"

C18_Witness ==
  /\ FixReturned /\ input.exec.exit # 0 /\ ~HasOutput(input.exec)
  /\ Total(input.before) > 0
  /\ Includes(output[1].error, <<"--force">>)

NoVulnerabilities ==
  [ vulnerabilities |-> <<>>,
    summary |-> [critical |-> 0, high |-> 0, moderate |-> 0, low |-> 0, info |-> 0],
    total |-> 0 ]

\* C19: runAudit never raises; a total execution failure with no captured
\* output, unparsable output, or a parsed payload without the findings
\* field each yield the empty result (no vulnerabilities, the five summary
\* counts 0, total 0).
C19_NeverRaises ==
  \A k \in 1..Len(output) :
    /\ ~output[k].outcome.raised
    /\ input.stdout \in {"none", "empty", "garbage", "nofield"}
         => output[k].outcome.value = NoVulnerabilities

C19_Witness ==
  /\ pc = "Audit"
  /\ input.stdout = "garbage"
  /\ Len(output) = 2

\* C20: two invocations of runAudit with identical captured standard
\* output, one exiting zero and one exiting non-zero, produce identical
\* results.
C20_ExitStatusIrrelevant ==
  \A j, k \in 1..Len(output) : output[j].outcome = output[k].outcome

C20_Witness ==
  /\ pc = "Audit"
  /\ Len(output) = 2
  /\ output[1].exit # output[2].exit
  /\ input.stdout = "report"
  /\ output[1].outcome.value.total = 2

Listed(k) == output[k].outcome.value.vulnerabilities

Rank(sev) ==
  CASE sev = "critical" -> 0 [] sev = "high" -> 1 [] sev = "moderate" -> 2
    [] sev = "low" -> 3 [] sev = "info" -> 4 [] OTHER -> 5

Ranked(sev) == Rank(sev) < 5

\* where the finding listed at position p stood in the input
InputPos(k, p) == CHOOSE q \in 1..Len(input.findings) : input.findings[q].name = Listed(k)[p].name

AuditListed(k) == input.stdout = "report" /\ Len(Listed(k)) > 0

\* C21: for any input findings, the vulnerabilities returned by runAudit are
\* ordered by severity rank ascending (critical, high, moderate, low, info),
\* findings of equal severity keep their relative input order, and the
\* output is a permutation of the input findings.
C21_SortedBySeverity ==
  \A k \in 1..Len(output) :
    AuditListed(k) =>
      /\ Len(Listed(k)) = Len(input.findings)
      /\ \A q \in 1..Len(input.findings) :
           \E p \in 1..Len(Listed(k)) :
             /\ Listed(k)[p].name = input.findings[q].name
             /\ Listed(k)[p].severity = input.findings[q].severity
      /\ \A p1, p2 \in 1..Len(Listed(k)) :
           p1 < p2 =>
             /\ Ranked(Listed(k)[p1].severity) /\ Ranked(Listed(k)[p2].severity)
                  => Rank(Listed(k)[p1].severity) <= Rank(Listed(k)[p2].severity)
             /\ Listed(k)[p1].severity = Listed(k)[p2].severity
                  => InputPos(k, p1) < InputPos(k, p2)

\* the same, for reports in which every severity is a listed level
C21_SortedWhenAllRanked ==
  (\A q \in 1..Len(input.findings) : Ranked(input.findings[q].severity))
    => C21_SortedBySeverity

C21_RankedWitness ==
  /\ Len(output) > 0 /\ AuditListed(1)
  /\ Len(input.findings) = 3
  /\ input.findings[1].severity = "low" /\ input.findings[2].severity = "critical"
  /\ input.findings[3].severity = "low"
  /\ Listed(1)[1].name = 2 /\ Listed(1)[2].name = 1 /\ Listed(1)[3].name = 3

CountOf(k, sev) == Cardinality({p \in 1..Len(Listed(k)) : Listed(k)[p].severity = sev})

\* C22: every AuditResult of runAudit has total = length(vulnerabilities),
\* each summary count = the number of listed findings with that severity,
\* and a sum of summary counts <= total; a finding with an unrecognized
\* severity is listed and counted in total but in no summary count.
C22_SummaryCounts ==
  \A k \in 1..Len(output) :
    LET res == output[k].outcome.value
        unrecognized == {p \in 1..Len(Listed(k)) : ~Ranked(Listed(k)[p].severity)}
    IN  /\ res.total = Len(res.vulnerabilities)
        /\ res.summary.critical = CountOf(k, "critical")
        /\ res.summary.high = CountOf(k, "high")
        /\ res.summary.moderate = CountOf(k, "moderate")
        /\ res.summary.low = CountOf(k, "low")
        /\ res.summary.info = CountOf(k, "info")
        /\ res.summary.critical + res.summary.high + res.summary.moderate
             + res.summary.low + res.summary.info = res.total - Cardinality(unrecognized)
        /\ input.stdout = "report" /\ res.total > 0 =>
             Cardinality(unrecognized) =
               Cardinality({q \in 1..Len(input.findings) :
                              ~Ranked(input.findings[q].severity)})

C22_Witness ==
  /\ Len(output) > 0
  /\ output[1].outcome.value.total = 3
  /\ output[1].outcome.value.summary.low = 2
  /\ \E p \in 1..3 : Listed(1)[p].severity = "unrated"

\* the first entry of a via-list that has the given shape, 0 when none has
FirstVia(via, Shape(_)) ==
  IF \E e \in 1..Len(via) : Shape(via[e])
  THEN CHOOSE e \in 1..Len(via) : Shape(via[e]) /\ \A d \in 1..(e - 1) : ~Shape(via[d])
  ELSE 0

IsStructured(entry) == entry.kind = "object"
IsTitled(entry) == entry.kind = "object" /\ entry.title # "<undefined>"

TitleUrlFrom(k, Shape(_)) ==
  \A p \in 1..Len(Listed(k)) :
    LET via == input.findings[InputPos(k, p)].via
        e   == FirstVia(via, Shape)
    IN  IF e = 0
        THEN Listed(k)[p].title = "Transitive vulnerability" /\ Listed(k)[p].url = ""
        ELSE /\ Listed(k)[p].title =
                  (IF via[e].title = "<undefined>" THEN "Transitive vulnerability"
                   ELSE via[e].title)
             /\ Listed(k)[p].url = (IF via[e].url = "<undefined>" THEN "" ELSE via[e].url)

\* C23 as stated: title and url of every finding come from the first entry
\* of its via-list that is a structured object; without one the title is
\* "Transitive vulnerability" and the url is empty.
C23_AsStated ==
  \A k \in 1..Len(output) : AuditListed(k) => TitleUrlFrom(k, IsStructured)

\* C23: title and url of every finding come from the first entry of its
\* via-list that is a structured object with a title key; without such an
\* entry the title is "Transitive vulnerability" and the url is empty.
C23_FirstTitledObject ==
  \A k \in 1..Len(output) : AuditListed(k) => TitleUrlFrom(k, IsTitled)

C23_Witness ==
  /\ Len(output) > 0 /\ AuditListed(1)
  /\ input.findings[1].via = <<ViaObject(Undefined, "U3"), ViaObject("T1", "U1")>>
  /\ Listed(1)[1].title = "T1" /\ Listed(1)[1].url = "U1"

C23_TransitiveWitness ==
  /\ Len(output) > 0 /\ AuditListed(1)
  /\ input.findings[1].via = <<ViaString>>
  /\ Listed(1)[1].title = "Transitive vulnerability" /\ Listed(1)[1].url = ""

\* what the call of updateMultiplePackages has done so far
InOrder ==
  /\ Len(um.results) = Len(installs)
  /\ Len(installs) <= Len(input.names)
  /\ \A k \in 1..Len(installs) :
       installs[k].name = input.names[k] /\ um.results[k].name = input.names[k]
  /\ IF input.onProgress
     THEN /\ Len(installs) - 1 <= Len(um.progress) /\ Len(um.progress) <= Len(installs)
          /\ \A k \in 1..Len(um.progress) :
               um.progress[k] = [result |-> um.results[k], index |-> k - 1,
                                 total |-> Len(input.names)]
     ELSE um.progress = <<>>

WhenReturned ==
  /\ Len(output[1]) = Len(input.names)
  /\ \A k \in 1..Len(input.names) : output[1][k].name = input.names[k]
  /\ Len(installs) = Len(input.names)
  /\ Len(um.progress) = (IF input.onProgress THEN Len(input.names) ELSE 0)

\* C12: updateMany processes names one at a time in input order: an install
\* starts only when every earlier install has its result and its progress
\* callback (result, i, total = len(names)) delivered; the callback fires
\* once per name with i ascending from 0; the returned sequence has one
\* entry per name with result[i].name = names[i]; empty input gives an empty
\* result with no callback and no install.
C12_Sequential ==
  [][ /\ Len(installs') > Len(installs) =>
          /\ Len(installs') = Len(installs) + 1
          /\ Len(um.results) = Len(installs)
          /\ input.onProgress => Len(um.progress) = Len(installs)
      /\ pc' = "Updating" => InOrder'
      /\ pc' = "Returned" => WhenReturned' ]_vars

C12_Witness ==
  /\ pc = "Returned"
  /\ input.onProgress
  /\ Len(input.names) = 2
  /\ Len(um.progress) = 2
  /\ um.progress[2].index = 1 /\ um.progress[2].total = 2
  /\ ~output[1][1].success /\ output[1][2].success

C12_EmptyWitness ==
  pc = "Returned" /\ input.names = <<>> /\ output = <<<<>>>> /\ installs = <<>>

\* the version string package.json declares for a name, "unknown" when
\* neither section declares it
DeclaredVersion(manifest_, name) ==
  IF name \in OwnKeys(manifest_.dependencies) THEN manifest_.dependencies.of[name]
  ELSE IF name \in OwnKeys(manifest_.devDependencies) THEN manifest_.devDependencies.of[name]
  ELSE "unknown"

OneCallReturned == pc = "Returned" /\ Len(input.names) = 1

\* C13: every UpdateResult returned by updateOne has: success=false implies
\* newVersion = previousVersion and an error reason; success=true implies
\* newVersion is the version the manifest declares after the install and no
\* error; previousVersion is the version declared before the install, or
\* "unknown" when the package is declared in neither dependency set.
C13_ResultVersions ==
  OneCallReturned =>
    LET r == output[1][1]
    IN  /\ ~r.success => r.newVersion = r.previousVersion /\ r.error # None
        /\ r.success => r.newVersion = DeclaredVersion(manifest, r.name) /\ r.error = None
        /\ r.previousVersion = DeclaredVersion(input.manifest, r.name)

LinesWith(stderr, tokens) ==
  \E l \in 1..Len(stderr) : \E t \in 1..Len(stderr[l]) : stderr[l][t] \in tokens

IsPrefixed(line) == \E t \in 1..Len(line) : line[t] \in {"npm ERR! ", "npm error "}

\* the text of a line without its first error-log prefix, trimmed
Stripped(line, text) ==
  \E t \in 1..Len(line) :
    /\ line[t] \in {"npm ERR! ", "npm error "}
    /\ \A u \in 1..(t - 1) : line[u] \notin {"npm ERR! ", "npm error "}
    /\ \E a, b \in 0..Len(line) :
         LET rest == SubSeq(line, 1, t - 1) \o SubSeq(line, t + 1, Len(line))
         IN  /\ text = SubSeq(rest, a + 1, Len(rest) - b)
             /\ \A u \in 1..a : rest[u] = " "
             /\ \A u \in (Len(rest) - b + 1)..Len(rest) : rest[u] = " "
             /\ text # <<>> => text[1] # " " /\ text[Len(text)] # " "

\* the reason the priority list gives for a captured error text
ReasonByPriority(stderr, reason) ==
  IF LinesWith(stderr, {"ERESOLVE"})
  THEN reason = <<"Peer dependency conflict", " (use ", "--force", " to bypass)">>
  ELSE IF LinesWith(stderr, {"404", "Not Found"})
  THEN reason = <<"Package not found in registry">>
  ELSE IF LinesWith(stderr, {"EACCES"}) THEN reason = <<"Permission denied">>
  ELSE IF LinesWith(stderr, {"ETIMEDOUT", "ENOTFOUND"}) THEN reason = <<"Network error">>
  ELSE IF \E l \in 1..Len(stderr) : IsPrefixed(stderr[l])
  THEN \E l \in 1..Len(stderr) :
         /\ IsPrefixed(stderr[l])
         /\ \A k \in 1..(l - 1) : ~IsPrefixed(stderr[k])
         /\ Stripped(stderr[l], reason)
  ELSE reason = <<"Unknown error">>

ReasonGiven == pc = "Returned" /\ Len(output) = 1

\* C14 as stated: the failure reason of an install is the one the priority
\* list gives for the captured error text, "Unknown error" when that text
\* is empty.
C14_AsStated ==
  ReasonGiven => ReasonByPriority(input.stderr, output[1])

\* C14: when the captured error text is not empty, the failure reason is the
\* one the fixed priority list gives for it (ERESOLVE, then 404 / Not Found,
\* then EACCES, then ETIMEDOUT / ENOTFOUND, then the first prefixed line
\* stripped and trimmed, then "Unknown error"); when it is empty, the reason
\* is the first line of the error's message, "Unknown error" only when there
\* is no message.
C14_ReasonPriority ==
  ReasonGiven =>
    IF input.stderr # <<>> THEN ReasonByPriority(input.stderr, output[1])
    ELSE IF input.message # <<"<undefined>">> THEN output[1] = input.message
    ELSE output[1] = <<"Unknown error">>

C14_Witness ==
  /\ ReasonGiven
  /\ LinesWith(input.stderr, {"ERESOLVE"}) /\ LinesWith(input.stderr, {"404"})
  /\ output[1][1] = "Peer dependency conflict"

C14_TrimWitness ==
  /\ ReasonGiven
  /\ input.stderr = << <<"npm WARN ", "deprecated">>, <<" ", "npm ERR! ", " ", "boom", " ">> >>
  /\ output[1] = <<"boom">>

UpdateOneDone == Len(input.names) = 1 /\ pc \in {"Returned", "Rejected"}

\* C15: the install command updateOne composes carries the dev save flag iff
\* the name is in the manifest's devDependencies (the production save flag
\* otherwise), the exact-pin flag iff exact is set, the conflict-bypass flag
\* iff force is set; one install is invoked per updateOne call.
C15_InstallCommand ==
  UpdateOneDone =>
    /\ Len(installs) = 1
    /\ installs[1].name = input.names[1]
    /\ installs[1].save =
         (IF input.names[1] \in OwnKeys(input.manifest.devDependencies)
          THEN "--save-dev" ELSE "--save")
    /\ installs[1].exact = input.options.exact
    /\ installs[1].legacyPeerDeps = input.options.force

Reported(k) == output[k].outcome.value.packages

\* the run got as far as reading a non-empty map from the tool
OutdatedListed == manifest.readable /\ input.stdout = "data" /\ input.names # <<>>

\* C24: in every OutdatedResult all direct-kind packages precede all
\* dev-kind packages, names are in alphabetical order within each kind,
\* total = length(packages), and the packages are exactly the names the
\* version-check tool reported, none dropped and none duplicated.
C24_OutdatedOrder ==
  \A k \in 1..Len(output) :
    /\ output[k].outcome.value.total = Len(Reported(k))
    /\ \A p, q \in 1..Len(Reported(k)) :
         p < q =>
           /\ Reported(k)[p].name # Reported(k)[q].name
           /\ ~(Reported(k)[p].type = "devDependencies"
                  /\ Reported(k)[q].type = "dependencies")
           /\ Reported(k)[p].type = Reported(k)[q].type
                => Reported(k)[p].name < Reported(k)[q].name
    /\ OutdatedListed =>
         {Reported(k)[p].name : p \in 1..Len(Reported(k))}
           = {input.names[q] : q \in 1..Len(input.names)}

C24_Witness ==
  /\ Len(output) > 0
  /\ Len(Reported(1)) = 3
  /\ input.names = <<1, 0, 2>>
  /\ Reported(1)[1].name = 2 /\ Reported(1)[2].name = 0 /\ Reported(1)[3].name = 1
  /\ Reported(1)[1].type = "dependencies" /\ Reported(1)[2].type = "devDependencies"

\* C25: a package reported by getOutdated has kind dev iff its name is in
\* the manifest's declared development-dependency set (direct otherwise),
\* whatever the tool's output says; a package declared in both sets is dev;
\* a package reported without a current version gets "MISSING".
C25_KindFromManifest ==
  \A k \in 1..Len(output) :
    \A p \in 1..Len(Reported(k)) :
      LET name == Reported(k)[p].name
          dev  == manifest.devDependencies.present
                    /\ manifest.devDependencies.of[name] # "<undefined>"
      IN  /\ Reported(k)[p].type = (IF dev THEN "devDependencies" ELSE "dependencies")
          /\ name \in input.missing <=> Reported(k)[p].current = "MISSING"

C25_Witness ==
  /\ Len(output) > 0
  /\ \E p \in 1..Len(Reported(1)) :
       /\ Reported(1)[p].type = "devDependencies"
       /\ Reported(1)[p].current = "MISSING"
       /\ manifest.dependencies.present
       /\ manifest.dependencies.of[Reported(1)[p].name] # "<undefined>"

NoPackages == [packages |-> <<>>, total |-> 0]

\* C26: getOutdated never raises; a non-zero exit with captured output is
\* parsed as a zero exit is; no captured output, unparsable output, an
\* empty map or an unreadable manifest give {packages: [], total: 0}.
C26_NeverRaises ==
  /\ \A k \in 1..Len(output) :
       /\ ~output[k].outcome.raised
       /\ ( \/ input.stdout \in {"none", "empty", "garbage"}
            \/ (input.stdout = "data" /\ input.names = <<>>)
            \/ ~manifest.readable )
            => output[k].outcome.value = NoPackages
       /\ OutdatedListed => Len(Reported(k)) = Len(input.names)
  /\ \A j, k \in 1..Len(output) : output[j].outcome = output[k].outcome

C26_Witness ==
  /\ Len(output) = 2
  /\ output[1].exit = 1 /\ output[2].exit = 0
  /\ OutdatedListed
  /\ output[1].outcome.value.total = 2

C26_UnreadableWitness ==
  /\ Len(output) = 2
  /\ ~manifest.readable /\ input.stdout = "data" /\ Len(input.names) = 2
  /\ output[1].outcome.value = NoPackages

\* --------------------------------------------------------------- C27
\* The lookup of the k-th name came to a metadata record.
Succeeded(k) == reg.settled[k].name = reg.names[k]

RECURSIVE SucceededUpTo(_)
SucceededUpTo(n) ==
  IF n = 0 THEN <<>>
  ELSE IF Succeeded(n) THEN Append(SucceededUpTo(n - 1), reg.settled[n])
  ELSE SucceededUpTo(n - 1)

FetchReturned == pc = "Returned" /\ Len(output) = 1

\* C27: a batch fetch returns whatever the individual lookups come to: every
\* name has been looked up, the result is the metadata of the names whose
\* lookup succeeded, in input order, without the failed ones; and a fetch
\* of no names issues no request and returns the empty sequence.
C27_FailuresOmitted ==
  /\ FetchReturned =>
       /\ Len(reg.settled) = Len(reg.names)
       /\ \A k \in 1..Len(reg.settled) : reg.settled[k] # InFlight
       /\ output[1] = SucceededUpTo(Len(reg.names))
  /\ reg.names = <<>> => reg.requests = <<>> /\ (FetchReturned => output[1] = <<>>)

C27_Witness ==
  /\ FetchReturned
  /\ Len(reg.names) > batchSize
  /\ ~Succeeded(1) /\ Succeeded(2) /\ ~Succeeded(batchSize)
  /\ ~Succeeded(Len(reg.names))
  /\ Len(output[1]) = Len(reg.names) - 3

C27_EmptyWitness == FetchReturned /\ reg.names = <<>> /\ output[1] = <<>>

\* --------------------------------------------------------------- C28
NumInFlight == Cardinality({k \in 1..Len(reg.settled) : reg.settled[k] = InFlight})

\* C28: at most 10 requests are in flight at any time; requests are issued
\* in batches of up to 10 consecutive names, and only when no earlier
\* request is still in flight; the names requested are a prefix of the input
\* names, and all of them once the fetch has returned.
C28_BoundedBatches ==
  /\ [](/\ NumInFlight <= 10
        /\ Len(reg.requests) <= Len(reg.names)
        /\ reg.requests = SubSeq(reg.names, 1, Len(reg.requests))
        /\ (FetchReturned => reg.requests = reg.names))
  /\ [][reg'.requests # reg.requests =>
          /\ NumInFlight = 0
          /\ Len(reg'.requests) - Len(reg.requests) <= 10
          /\ Len(reg.requests) % 10 = 0]_vars

C28_Witness ==
  /\ Len(reg.requests) > 10
  /\ NumInFlight = 1
  /\ \E k \in 1..10 : reg.settled[k] = NoMetadata

C28_FullBatchWitness == NumInFlight = 10 /\ Len(reg.names) > 10

\* --------------------------------------------------------------- C29
MetadataReturned == pc = "Returned" /\ Len(output) = 1 /\ output[1] # NoMetadata

\* the registry names a latest version
HasLatestTag == input.response.latest \notin {Undefined, ""}

\* C29: the last-publish date of a fetched package is the time entry of
\* the latest-tagged version when there is a latest tag and a time entry
\* for it; else the "modified" entry when there is one; else empty.
C29_LastPublishDate ==
  MetadataReturned =>
    output[1].lastPublishDate =
      IF HasLatestTag /\ input.response.published # NoDate THEN input.response.published
      ELSE IF input.response.modified # NoDate THEN input.response.modified
      ELSE EmptyDate

C29_Witness ==
  /\ MetadataReturned
  /\ HasLatestTag
  /\ input.response.published \notin {NoDate, EmptyDate}
  /\ input.response.modified \notin {NoDate, EmptyDate, input.response.published}
  /\ output[1].lastPublishDate = input.response.published

C29_FallbackWitness ==
  /\ MetadataReturned
  /\ HasLatestTag
  /\ input.response.published = NoDate
  /\ input.response.modified \notin {NoDate, EmptyDate}
  /\ output[1].lastPublishDate = input.response.modified

C29_NoTagWitness ==
  /\ MetadataReturned
  /\ input.response.latest = Undefined
  /\ input.response.published \notin {NoDate, EmptyDate}
  /\ input.response.modified \notin {NoDate, EmptyDate, input.response.published}
  /\ output[1].lastPublishDate = input.response.modified

C29_EmptyWitness ==
  /\ MetadataReturned
  /\ input.response.published = NoDate /\ input.response.modified = NoDate
  /\ output[1].lastPublishDate = EmptyDate

\* --------------------------------------------------------------- C30
\* now is more than 730 days after the date, to the millisecond
MoreThan730Days(date) ==
  /\ date.text = "iso"
  /\ \/ Now.day - date.day > 730
     \/ Now.day - date.day = 730 /\ Now.ms > date.ms

\* C30: isStale is true exactly when the last-publish date is known and
\* lies more than 730 days back; with an empty date isStale is false and
\* the age label is "unknown".
C30_StaleStrictlyOver730Days ==
  MetadataReturned =>
    /\ output[1].isStale <=>
         output[1].lastPublishDate # EmptyDate /\ MoreThan730Days(output[1].lastPublishDate)
    /\ output[1].lastPublishDate = EmptyDate =>
         ~output[1].isStale /\ output[1].lastPublishAge = UnknownAge

C30_Witness ==
  /\ MetadataReturned
  /\ output[1].lastPublishDate = IsoDate(Now.day - 730, Now.ms)
  /\ ~output[1].isStale

C30_StaleWitness ==
  /\ MetadataReturned
  /\ output[1].lastPublishDate = IsoDate(Now.day - 730, Now.ms - 1)
  /\ output[1].isStale

C30_UnknownWitness ==
  /\ MetadataReturned
  /\ output[1].lastPublishDate = EmptyDate
  /\ output[1].lastPublishAge = UnknownAge

\* --------------------------------------------------------------- C31
\* the deprecation message of the version the latest tag names, if any
LatestMessage ==
  IF HasLatestTag /\ input.response.latest \in DOMAIN input.response.versions
  THEN input.response.versions[input.response.latest]
  ELSE Undefined

\* C31: the deprecated field is the deprecation message of the latest-tagged
\* version when that version has one, and false otherwise, whatever the
\* older versions carry and whenever there is no latest tag.
C31_DeprecatedFromLatest ==
  MetadataReturned =>
    output[1].deprecated =
      IF LatestMessage \notin {Undefined, ""} THEN LatestMessage ELSE "<false>"

C31_Witness ==
  /\ MetadataReturned
  /\ input.response.latest = "2.0.0"
  /\ input.response.versions["1.0.0"] = Undefined
  /\ output[1].deprecated = "Use new-pkg instead"

C31_OlderVersionWitness ==
  /\ MetadataReturned
  /\ input.response.latest = "2.0.0"
  /\ input.response.versions["1.0.0"] = "Use new-pkg instead"
  /\ input.response.versions["2.0.0"] = Undefined
  /\ output[1].deprecated = "<false>"

C31_NoTagWitness ==
  /\ MetadataReturned
  /\ input.response.latest = Undefined
  /\ input.response.versions["2.0.0"] = "Use new-pkg instead"
  /\ output[1].deprecated = "<false>"

\* --------------------------------------------------------------- C32
\* whole days from the last-publish date to now
DaysAgo ==
  Now.day - output[1].lastPublishDate.day
    - (IF Now.ms < output[1].lastPublishDate.ms THEN 1 ELSE 0)

Aged == MetadataReturned /\ output[1].lastPublishDate.text = "iso" /\ DaysAgo >= 0

\* C32: for d whole days elapsed, the label is "d days ago" for d < 30,
\* "N month(s) ago" with N = d div 30 for 30 <= d < 360, and from 360 days on
\* "Y year(s) ago" when (d div 30) mod 12 = 0 and "Yy Mm ago" otherwise, with
\* Y = (d div 30) div 12 and M = (d div 30) mod 12; "month" and "year" are
\* singular exactly when the count is 1.
C32_AgeLabel ==
  Aged =>
    LET d == DaysAgo
        label == output[1].lastPublishAge
    IN  /\ d < 30 => label.kind = "days ago" /\ label.n = d
        /\ d >= 30 /\ d < 360 =>
             label.kind = "month ago" /\ label.n = d \div 30 /\ (label.plural <=> label.n # 1)
        /\ d >= 360 /\ (d \div 30) % 12 = 0 =>
             /\ label.kind = "year ago" /\ label.n = (d \div 30) \div 12
             /\ label.plural <=> label.n # 1
        /\ d >= 360 /\ (d \div 30) % 12 # 0 =>
             /\ label.kind = "y m ago" /\ label.n = (d \div 30) \div 12
             /\ label.m = (d \div 30) % 12

C32_Witness ==
  /\ Aged
  /\ DaysAgo = 365
  /\ output[1].lastPublishAge = AgeLabel("year ago", 1, 0, FALSE)

C32_MonthWitness == Aged /\ DaysAgo = 59 /\ output[1].lastPublishAge = AgeLabel("month ago", 1, 0, FALSE)

C32_YearsMonthsWitness == Aged /\ DaysAgo = 750 /\ output[1].lastPublishAge = AgeLabel("y m ago", 2, 1, FALSE)

\* --------------------------------------------------------------- C35
FetchedTwice == pc = "Twice" /\ Len(output) = 2

C35_LaterWitness ==
  /\ FetchedTwice
  /\ input.later # Now
  /\ ~output[1].isStale /\ output[2].isStale
  /\ output[1].lastPublishDate = output[2].lastPublishDate

\* --------------------------------------------------------------- C33
ScanReported == Len(output) = 2 /\ pc \in {"Done", "Exited"}

\* the fetched metadata at the positions at, in fetch order
RECURSIVE Fetched(_, _)
Fetched(n, at) ==
  IF n = 0 THEN <<>>
  ELSE IF n \in at THEN Append(Fetched(n - 1, at), output[1][n])
  ELSE Fetched(n - 1, at)

DeprecatedAt == {k \in 1..Len(output[1]) : output[1][k].deprecated # "<false>"}

StaleOnlyAt ==
  {k \in 1..Len(output[1]) : output[1][k].isStale /\ output[1][k].deprecated = "<false>"}

\* C33: the deprecated list of a report is the fetched metadata whose
\* deprecated is not false, the stale list is the fetched metadata that is
\* stale and not deprecated, both in fetch order, and no entry is in both.
C33_DeprecatedAndStale ==
  ScanReported =>
    /\ output[2].deprecated = Fetched(Len(output[1]), DeprecatedAt)
    /\ output[2].stale = Fetched(Len(output[1]), StaleOnlyAt)
    /\ \A j \in 1..Len(output[2].deprecated), k \in 1..Len(output[2].stale) :
         output[2].deprecated[j] # output[2].stale[k]

C33_Witness ==
  /\ ScanReported
  /\ Len(output[1]) = 2
  /\ output[1][1].isStale /\ output[1][1].deprecated # "<false>"
  /\ output[1][2].isStale /\ output[1][2].deprecated = "<false>"
  /\ output[2].deprecated = <<output[1][1]>>
  /\ output[2].stale = <<output[1][2]>>

\* --------------------------------------------------------------- C34
ExitedWith(status) ==
  /\ pc = "Exited"
  /\ Len(calls) > 0
  /\ calls[Len(calls)].op = "process.exit" /\ calls[Len(calls)].what = status

\* C34: with a package.json that cannot be read, scanCommand ends the
\* process with status 1 and the audit tool, the version-check tool, the
\* registry and the renderer are not invoked.
C34_UnreadableManifestExits ==
  ~manifest.readable /\ pc # "Scan" =>
    /\ ExitedWith("1")
    /\ ~Invoked("runAudit") /\ ~Invoked("getOutdated") /\ ~Invoked("displayFullReport")
    /\ reg.requests = <<>>

C34_Witness == ~manifest.readable /\ ExitedWith("1") /\ Len(calls) = 1

\* --------------------------------------------------------------- C39
ReportsHanded == Cardinality({k \in 1..Len(calls) : calls[k].op = "displayFullReport"})

AllSourcesFailed ==
  /\ input.audit.stdout = "none"
  /\ input.outdated.stdout = "none"
  /\ \A k \in 1..Len(reg.settled) : reg.settled[k] = NoMetadata

\* C39: with a readable package.json, a scan that has ended has handed one
\* report to the renderer and has not ended the process with a non-zero
\* status; when every source failed, the report holds an empty audit, an
\* empty outdated result and empty deprecated and stale lists.
C39_OneReportNoFailure ==
  manifest.readable /\ pc \in {"Done", "Exited"} =>
    /\ pc = "Done"
    /\ ReportsHanded = 1
    /\ Len(output) = 2
    /\ AllSourcesFailed =>
         output[2] = [audit |-> EmptyAudit, outdated |-> EmptyOutdated,
                      deprecated |-> <<>>, stale |-> <<>>]

\* --------------------------------------------------------------- C36
CallsOf(op) == Cardinality({k \in 1..Len(calls) : calls[k].op = op})

InstallsOf(name) == {k \in 1..Len(installs) : installs[k].name = name}

\* the run has come to Done, or has a step to take
DoneOrRunning == pc = "Done" \/ ENABLED Next

CallsBounded ==
  /\ CallsOf("updateMultiplePackages") <= 2
  /\ CallsOf("runAuditFix") <= 2
  /\ CallsOf("checkbox") <= 1
  /\ CallsOf("confirm") <= 3

InstallsBounded ==
  \A name \in Pkgs :
    /\ Cardinality(InstallsOf(name)) <= 2
    /\ \A j, k \in InstallsOf(name) : j < k => installs[k].legacyPeerDeps

\* C36: a run of updateCommand whose tools and prompts return ends in Done;
\* it calls updateMultiplePackages at most twice, runAuditFix at most twice,
\* the selection prompt at most once and confirm at most three times; it
\* installs no package more than twice, and the second install of a
\* package is forced.
C36_TerminatesWithinBounds == DoneOrRunning /\ CallsBounded /\ InstallsBounded

\* --------------------------------------------------------------- C37
\* the updates were retried with --force on the user's confirmation
ForcedRetryDone ==
  /\ Len(UpdateCalls) = 2
  /\ ~UpdateCalls[1].force /\ UpdateCalls[2].force /\ UpdateCalls[2].ret = "returned"

\* C37: the first runAuditFix call of a run carries the force option the
\* caller passed, also after a confirmed forced retry of the updates.
C37_FixForceIsCallersOption ==
  Len(FixCalls) > 0 => (FixCalls[1].force <=> options.force)

C37_Witness ==
  /\ ForcedRetryDone
  /\ Len(FixCalls) > 0
  /\ ~options.force /\ ~FixCalls[1].force

C37_ForceWitness == Len(FixCalls) > 0 /\ options.force /\ FixCalls[1].force

\* --------------------------------------------------------------- C38
ExecsOf(cmds) == {k \in 1..Len(calls) : calls[k].op = "execSync" /\ calls[k].what \in cmds}

\* the remediation command exited with a failure and left no standard output
NoOutputFailure == input.exec.exit # 0 /\ input.exec.stdout \in {NoText, <<>>}

\* C38: one runAuditFix call issues the before audit first, then the
\* remediation command exactly once, with --force exactly when force was
\* requested, and then one more audit exactly when the remediation command
\* left captured output; after a no-output failure no audit follows.
C38_ToolOrder ==
  FixReturned =>
    LET fixes  == ExecsOf({"npm audit fix", "npm audit fix --force"})
        audits == ExecsOf({"npm audit --json"})
    IN  /\ Len(calls) >= 2
        /\ Cardinality(fixes) = 1
        /\ fixes = {2}
        /\ calls[2].what = "npm audit fix --force" <=> input.force
        /\ 1 \in audits
        /\ audits = (IF NoOutputFailure THEN {1} ELSE {1, 3})
        /\ Len(calls) = Cardinality(fixes) + Cardinality(audits)

C38_Witness ==
  /\ FixReturned
  /\ input.force /\ input.exec.exit # 0 /\ input.exec.stdout \notin {NoText, <<>>}
  /\ Len(calls) = 3 /\ calls[2].what = "npm audit fix --force"

C38_NoOutputWitness == FixReturned /\ NoOutputFailure /\ ~input.force /\ Len(calls) = 2

\* --------------------------------------------------------------- C40
ChoicesBuilt == pc = "Checkbox" /\ Len(output) = 1 /\ input.name = output[1].value

\* The number a version begins with once anything before its first digit is
\* set aside: the value of its first run of digits; -1 when it has no digit.
LeadingNumber(version) ==
  LET digit == [c \in {"0", "1", "2", "3", "4", "5", "6", "7", "8", "9"} |->
                  CASE c = "0" -> 0 [] c = "1" -> 1 [] c = "2" -> 2 [] c = "3" -> 3
                    [] c = "4" -> 4 [] c = "5" -> 5 [] c = "6" -> 6 [] c = "7" -> 7
                    [] c = "8" -> 8 [] c = "9" -> 9]
      at == {i \in 1..Len(version) : version[i] \in DOMAIN digit}
      from == CHOOSE i \in at : \A j \in at : i <= j
      to == CHOOSE j \in at : /\ \A i \in from..j : i \in at
                               /\ j + 1 \notin at
                               /\ j >= from
      RECURSIVE value(_, _)
      value(i, acc) == IF i > to THEN acc ELSE value(i + 1, 10 * acc + digit[version[i]])
  IN  IF at = {} THEN -1 ELSE value(from, 0)

MissingCurrent == input.current = <<Undefined>>

MajorAsStated ==
  /\ ~MissingCurrent
  /\ LeadingNumber(input.current) # -1
  /\ LeadingNumber(input.latest) # -1
  /\ LeadingNumber(input.latest) > LeadingNumber(input.current)

\* C40: a discovered package is pre-selected exactly when its update is not
\* major, an update being major exactly when both versions begin with a
\* number and the latest's is the greater; a package without a current
\* version (the "MISSING" sentinel) is never major and is pre-selected.
C40_PreselectedUnlessMajor ==
  ChoicesBuilt =>
    /\ output[1].checked <=> ~MajorAsStated
    /\ MissingCurrent => output[1].checked

C40_Witness ==
  /\ ChoicesBuilt
  /\ input.current = <<"9", ".", "0", ".", "0">>
  /\ input.latest = <<"1", "0", ".", "0", ".", "0">>
  /\ ~output[1].checked

C40_MissingWitness ==
  ChoicesBuilt /\ MissingCurrent /\ input.latest = <<"2", ".", "0", ".", "0">> /\ output[1].checked

C40_DowngradeWitness ==
  /\ ChoicesBuilt
  /\ input.current = <<"2", ".", "0", ".", "0">> /\ input.latest = <<"1", ".", "9", ".", "2">>
  /\ output[1].checked

====
